---- MODULE Spec2Model ----
(***************************************************************************)
(* The Objective-C runtime class-metadata walker of                        *)
(* lldb/examples/summaries/cocoa/objc_runtime.py.                          *)
(*                                                                         *)
(* Values read from the inspected process are unsigned 64-bit integers.    *)
(* They are kept as four 16-bit limbs, least significant limb first, and   *)
(* Python's operators on them (%, &, >>, +) are computed limb by limb.     *)
(* A Python value that may be None is either None == <<>> or a tuple:      *)
(* a 64-bit value is its four limbs, any other optional value x is <<x>>.  *)
(* A string is the sequence of its characters.                             *)
(***************************************************************************)
EXTENDS Integers, Sequences, FiniteSets, TLC

VARIABLES
    call,       \* a call of one of the pure helpers: its arguments and result
    sys,        \* SystemParameters of the inspected process
    mem,        \* the process image: address -> pointer-sized cell
    strs,       \* the process image: address -> C string starting there
    isa_cache,  \* sys_params.isa_cache: isa value -> class descriptor
    obj,        \* the ObjCRuntime wrapper under use
    data,       \* what the last read_class_data call returned
    resolved,   \* the input of that call: the object pointer, and whether in scope
    log,        \* the memory reads and cache operations of that call, in order
    \* the module-level state of objc_runtime.py and the debugged processes
    runtime_version,  \* cache: process id -> detected runtime version
    os_version,       \* cache: process id -> is_lion
    types_caches,     \* cache: process id -> the types cache object of the process
    isa_caches,       \* cache: process id -> the isa cache object of the process
    heap,             \* the cache objects made so far: object -> its entries
    target,           \* process id -> the modules and OS of the debugged process
    \* a ResultsFormatter / XunitFormatter of lldb/test/test_results.py
    options,             \* the --xfail and --xpass result mappings
    start_time_by_test,  \* test key -> start time
    lock,                \* the thread inside a "with self.lock" block, 0 when free
    total_test_count,
    elements,            \* list name -> the testcase entries appended to it
    out_file,            \* what end_session wrote
    threads,             \* each reporting thread's position in process_event
    \* find_lldb_root of lldbsuite/__init__.py
    lldb_root,        \* the frame of the call: the directory under test, the result
    files             \* the regular files of the file system

\* the variables of the class-metadata walker
walker_vars == <<call, sys, mem, strs, isa_cache, obj, data, resolved, log>>

\* the variables of the per-process context
process_vars == <<runtime_version, os_version, types_caches, isa_caches, heap, target>>

\* the variables of the results formatter
formatter_vars ==
    <<options, start_time_by_test, lock, total_test_count, elements, out_file, threads>>

\* the variables of find_lldb_root
root_vars == <<lldb_root, files>>

vars == <<walker_vars, process_vars, formatter_vars, root_vars>>

\* no process was inspected yet
NoProcess ==
    /\ runtime_version = <<>>
    /\ os_version = <<>>
    /\ types_caches = <<>>
    /\ isa_caches = <<>>
    /\ heap = <<>>
    /\ target = <<>>

\* no formatter is in use
NoFormatter ==
    /\ options = <<>>
    /\ start_time_by_test = <<>>
    /\ lock = 0
    /\ total_test_count = 0
    /\ elements = <<>>
    /\ out_file = <<>>
    /\ threads = <<>>

\* find_lldb_root is not running
NoRoot ==
    /\ lldb_root = <<>>
    /\ files = {}

----------------------------------------------------------------------------
(* Bounds of the checked input sets *)

\* is_valid_pointer is applied to every value 0..MaxValue (and a few wide ones)
MaxValue == 40
\* TaggedClass_Data is applied to every odd value below 2^8 * (MaxPayload + 1)
MaxPayload == 3

----------------------------------------------------------------------------
(* 64-bit unsigned arithmetic on limbs *)

W == 256 * 256

None == <<>>

Some(x) == <<x>>

\* the 64-bit value of a natural number below 2^31
U64(n) == <<n % W, (n \div W) % W, 0, 0>>

Zero == U64(0)

\* the natural number of a 64-bit value below 2^31
Nat64(v) == v[1] + W * v[2]

Pow2(s) == 2 ^ s

\* Python's a & b on two naturals
RECURSIVE AndNat(_, _)
AndNat(a, b) ==
    IF a = 0 \/ b = 0 THEN 0
    ELSE (a % 2) * (b % 2) + 2 * AndNat(a \div 2, b \div 2)

\* Python's a & b on two 64-bit values
And64(a, b) ==
    <<AndNat(a[1], b[1]), AndNat(a[2], b[2]), AndNat(a[3], b[3]), AndNat(a[4], b[4])>>

\* Python's a >> s, for 0 < s < 16
Shr64(a, s) ==
    LET P == Pow2(s)
        Q == W \div P
    IN <<(a[1] \div P) + (a[2] % P) * Q,
         (a[2] \div P) + (a[3] % P) * Q,
         (a[3] \div P) + (a[4] % P) * Q,
         a[4] \div P>>

\* Python's a % m, for a small positive m
Mod64(a, m) ==
    LET r4 == a[4] % m
        r3 == (r4 * W + a[3]) % m
        r2 == (r3 * W + a[2]) % m
    IN (r2 * W + a[1]) % m

\* address a plus a small byte offset k (an address never wraps around)
Add64(a, k) ==
    LET s1 == a[1] + k
        s2 == a[2] + (s1 \div W)
        s3 == a[3] + (s2 \div W)
        s4 == a[4] + (s3 \div W)
    IN <<s1 % W, s2 % W, s3 % W, s4 % W>>

\* bit i (0..63) of a 64-bit value
Bit(v, i) == (v[(i \div 16) + 1] \div Pow2(i % 16)) % 2

----------------------------------------------------------------------------
(* Utilities *)

is_valid_pointer_NoNullCheck(pointer, pointer_size, allow_tagged, allow_NULL) ==
    IF pointer = None THEN FALSE
    ELSE IF allow_tagged /\ Mod64(pointer, 2) = 1 THEN TRUE
    ELSE Mod64(pointer, pointer_size) = 0

is_valid_pointer(pointer, pointer_size, allow_tagged, allow_NULL) ==
    IF pointer = None THEN FALSE
    ELSE IF pointer = Zero THEN allow_NULL
    ELSE IF allow_tagged /\ Mod64(pointer, 2) = 1 THEN TRUE
    ELSE Mod64(pointer, pointer_size) = 0

\* 0xFFFF800000000000
AllowedMask == <<0, 0, 32768, 65535>>

is_allowed_pointer_Bits48(pointer) ==
    IF pointer = None THEN FALSE
    ELSE And64(pointer, <<0, 0, 0, 65535>>) = Zero

is_allowed_pointer(pointer) ==
    IF pointer = None THEN FALSE
    ELSE And64(pointer, AllowedMask) = Zero

----------------------------------------------------------------------------
(* Reading the process image *)

\* one entry of the log: what was done, for which field, where, with what result
Ev(op, field, addr, val) == [op |-> op, field |-> field, addr |-> addr, val |-> val]

\* valobj.CreateChildAtOffset(..., offset, type).GetValueAsUnsigned(), None when
\* the child cannot be read
read_child_of(valobj, offset) ==
    LET a == Add64(valobj, offset)
    IN IF a \in DOMAIN mem THEN mem[a] ELSE None

\* the content kept by read_ascii: None for a failed read and for an empty one
read_ascii_result(content) ==
    IF content = None THEN None
    ELSE IF Len(content[1]) = 0 THEN None
    ELSE content

\* process.ReadCStringFromMemory(pointer, max_len, error): at most max_len - 1
\* characters; a None pointer raises inside the try block
read_ascii(pointer) ==
    read_ascii_result(
        IF pointer = None THEN None
        ELSE IF pointer \in DOMAIN strs
        THEN Some(SubSeq(strs[pointer], 1, IF Len(strs[pointer]) > 127 THEN 127
                                           ELSE Len(strs[pointer])))
        ELSE None)

ok_values == {
    "$", "%", "_", ".", "-",
    "A", "B", "C", "D", "E", "F", "G", "H", "I", "J", "K", "L", "M",
    "N", "O", "P", "Q", "R", "S", "T", "U", "V", "W", "X", "Y", "Z",
    "a", "b", "c", "d", "e", "f", "g", "h", "i", "j", "k", "l", "m",
    "n", "o", "p", "q", "r", "s", "t", "u", "v", "w", "x", "y", "z",
    "1", "2", "3", "4", "5", "6", "7", "8", "9", "0"}

is_valid_identifier_NonEmpty(name) ==
    IF name = None THEN FALSE ELSE Len(name[1]) # 0

\* the truth value of is_valid_identifier(name): None and False are both falsy
is_valid_identifier(name) ==
    IF name = None THEN FALSE
    ELSE IF Len(name[1]) = 0 THEN FALSE
    ELSE \A i \in 1..Len(name[1]) : name[1][i] \in ok_values

----------------------------------------------------------------------------
(* Class descriptors *)

\* an attribute that was never assigned
Unset == [kind |-> "unset", valid |-> FALSE]

\* Python's None where a descriptor is expected
NoneData == [kind |-> "None", valid |-> FALSE]

InvalidClass_Data == [kind |-> "InvalidClass_Data", valid |-> FALSE]

\* the log entry of a name read: a None pointer is never handed to the process
name_event(namePointer, name) ==
    IF namePointer = None THEN <<>>
    ELSE <<Ev("read_ascii", "name", namePointer, name)>>

RoT_named(rot_pointer, addr, namePointer, name) ==
    [d |-> [kind |-> "RoT_Data", valid |-> is_valid_identifier(name),
            valobj |-> rot_pointer, instanceSize |-> None,
            namePointer |-> namePointer, name |-> name],
     log |-> <<Ev("read_child_of", "namePointer", addr, namePointer)>>
             \o name_event(namePointer, name)]

RoT_read(rot_pointer, addr, namePointer) ==
    RoT_named(rot_pointer, addr, namePointer, read_ascii(namePointer))

RoT_Data(rot_pointer, params) ==
    IF is_valid_pointer(rot_pointer, params.pointer_size, FALSE, FALSE)
    THEN RoT_read(rot_pointer,
                  Add64(rot_pointer, IF params.is_64_bit THEN 24 ELSE 16),
                  read_child_of(rot_pointer, IF params.is_64_bit THEN 24 ELSE 16))
    ELSE [d |-> [kind |-> "RoT_Data", valid |-> FALSE, valobj |-> None,
                 instanceSize |-> None, namePointer |-> None, name |-> None],
          log |-> <<>>]

RoT_is_valid(rot) == rot.valid

RwT_check_valid(roPointer, params) ==
    is_valid_pointer(roPointer, params.pointer_size, FALSE, FALSE)

RwT_with(rwt_pointer, roPointer, rot) ==
    [d |-> [kind |-> "RwT_Data", valid |-> TRUE, valobj |-> rwt_pointer,
            roPointer |-> roPointer, data |-> rot.d],
     log |-> <<Ev("read_child_of", "roPointer", Add64(rwt_pointer, 8), roPointer)>>
             \o rot.log]

RwT_read(rwt_pointer, roPointer, params) ==
    IF RwT_check_valid(roPointer, params)
    THEN RwT_with(rwt_pointer, roPointer, RoT_Data(roPointer, params))
    ELSE [d |-> [kind |-> "RwT_Data", valid |-> FALSE, valobj |-> rwt_pointer,
                 roPointer |-> roPointer, data |-> Unset],
          log |-> <<Ev("read_child_of", "roPointer", Add64(rwt_pointer, 8), roPointer)>>]

RwT_Data(rwt_pointer, params) ==
    IF is_valid_pointer(rwt_pointer, params.pointer_size, FALSE, FALSE)
    THEN RwT_read(rwt_pointer, read_child_of(rwt_pointer, 8), params)
    ELSE [d |-> [kind |-> "RwT_Data", valid |-> FALSE, valobj |-> None,
                 roPointer |-> None, data |-> Unset],
          log |-> <<>>]

RwT_is_valid(rwt) == IF rwt.valid THEN RoT_is_valid(rwt.data) ELSE FALSE

field_read_NoAllowedCheck(s, field, addr, v, validate, allow_NULL, check_allowed, params) ==
    [s EXCEPT ![field] = v,
              !.log = Append(@, Ev("read_child_of", field, addr, v)),
              !.valid = validate =>
                        is_valid_pointer(v, params.pointer_size, FALSE, allow_NULL)]

\* a field of the class record as read: kept, logged, and validated when asked
\* (validate = FALSE for a field that is read and kept without any check)
field_read(s, field, addr, v, validate, allow_NULL, check_allowed, params) ==
    [s EXCEPT ![field] = v,
              !.log = Append(@, Ev("read_child_of", field, addr, v)),
              !.valid = validate =>
                        /\ is_valid_pointer(v, params.pointer_size, FALSE, allow_NULL)
                        /\ (check_allowed => is_allowed_pointer(v))]

check_field_NoEarlyReturn(s, field, offset, validate, allow_NULL, check_allowed, params) ==
    [field_read(s, field, Add64(s.valobj, offset), read_child_of(s.valobj, offset),
                validate, allow_NULL, check_allowed, params)
       EXCEPT !.valid = s.valid /\ @]

\* one field of check_valid: nothing is read once the class is known invalid
\* (the early return)
check_field(s, field, offset, validate, allow_NULL, check_allowed, params) ==
    IF ~s.valid THEN s
    ELSE field_read(s, field, Add64(s.valobj, offset), read_child_of(s.valobj, offset),
                    validate, allow_NULL, check_allowed, params)

V2_fields(valobj) ==
    [valid |-> TRUE, valobj |-> valobj, log |-> <<>>,
     isaPointer |-> None, superclassIsaPointer |-> None,
     cachePointer |-> None, vtablePointer |-> None, dataPointer |-> None]

Class_Data_V2_check_valid_DataUnchecked(valobj, params) ==
    check_field(
      check_field(
        check_field(
          check_field(
            check_field(V2_fields(valobj),
                        "isaPointer", 0, TRUE, FALSE, TRUE, params),
            "cachePointer", 2 * params.pointer_size, TRUE, FALSE, FALSE, params),
          "vtablePointer", 3 * params.pointer_size, TRUE, FALSE, TRUE, params),
        "dataPointer", 4 * params.pointer_size, TRUE, FALSE, FALSE, params),
      "superclassIsaPointer", 1 * params.pointer_size, TRUE, TRUE, TRUE, params)

Class_Data_V2_check_valid_CacheUnchecked(valobj, params) ==
    check_field(
      check_field(
        check_field(
          check_field(
            check_field(V2_fields(valobj),
                        "isaPointer", 0, TRUE, FALSE, TRUE, params),
            "cachePointer", 2 * params.pointer_size, FALSE, FALSE, FALSE, params),
          "vtablePointer", 3 * params.pointer_size, FALSE, FALSE, FALSE, params),
        "dataPointer", 4 * params.pointer_size, TRUE, FALSE, TRUE, params),
      "superclassIsaPointer", 1 * params.pointer_size, TRUE, TRUE, TRUE, params)

Class_Data_V2_check_valid(valobj, params) ==
    check_field(
      check_field(
        check_field(
          check_field(
            check_field(V2_fields(valobj),
                        "isaPointer", 0, TRUE, FALSE, TRUE, params),
            "cachePointer", 2 * params.pointer_size, TRUE, FALSE, TRUE, params),
          "vtablePointer", 3 * params.pointer_size, TRUE, FALSE, TRUE, params),
        "dataPointer", 4 * params.pointer_size, TRUE, FALSE, TRUE, params),
      "superclassIsaPointer", 1 * params.pointer_size, TRUE, TRUE, TRUE, params)

V2_descriptor(s, rwt) ==
    [d |-> [kind |-> "Class_Data_V2", valid |-> s.valid, valobj |-> s.valobj,
            isaPointer |-> s.isaPointer,
            superclassIsaPointer |-> s.superclassIsaPointer,
            cachePointer |-> s.cachePointer, vtablePointer |-> s.vtablePointer,
            dataPointer |-> s.dataPointer, data |-> rwt.d],
     log |-> s.log \o rwt.log]

V2_checked(s, params) ==
    IF s.valid THEN V2_descriptor(s, RwT_Data(s.dataPointer, params))
    ELSE V2_descriptor(s, [d |-> Unset, log |-> <<>>])

Class_Data_V2(isa_pointer, params) ==
    IF isa_pointer = None THEN V2_descriptor([V2_fields(None) EXCEPT !.valid = FALSE],
                                             [d |-> Unset, log |-> <<>>])
    ELSE IF is_valid_pointer(isa_pointer, params.pointer_size, FALSE, FALSE)
    THEN V2_checked(Class_Data_V2_check_valid(isa_pointer, params), params)
    ELSE V2_descriptor([V2_fields(None) EXCEPT !.valid = FALSE],
                       [d |-> Unset, log |-> <<>>])

V1_fields(valobj) ==
    [valid |-> TRUE, valobj |-> valobj, log |-> <<>>,
     isaPointer |-> None, superclassIsaPointer |-> None, namePointer |-> None]

Class_Data_V1_check_valid(valobj, params) ==
    check_field(
      check_field(
        check_field(V1_fields(valobj),
                    "isaPointer", 0, TRUE, FALSE, FALSE, params),
        "superclassIsaPointer", 1 * params.pointer_size, TRUE, TRUE, FALSE, params),
      "namePointer", 2 * params.pointer_size, FALSE, FALSE, FALSE, params)

V1_descriptor(s, valid, name, events) ==
    [d |-> [kind |-> "Class_Data_V1", valid |-> valid, valobj |-> s.valobj,
            isaPointer |-> s.isaPointer,
            superclassIsaPointer |-> s.superclassIsaPointer,
            namePointer |-> s.namePointer, name |-> name],
     log |-> s.log \o events]

V1_named(s, name) ==
    V1_descriptor(s, is_valid_identifier(name), name, name_event(s.namePointer, name))

V1_checked(s) ==
    IF s.valid THEN V1_named(s, read_ascii(s.namePointer))
    ELSE V1_descriptor(s, FALSE, None, <<>>)

Class_Data_V1(isa_pointer, params) ==
    IF isa_pointer = None THEN V1_descriptor([V1_fields(None) EXCEPT !.valid = FALSE],
                                             FALSE, None, <<>>)
    ELSE IF is_valid_pointer(isa_pointer, params.pointer_size, FALSE, FALSE)
    THEN V1_checked(Class_Data_V1_check_valid(isa_pointer, params))
    ELSE V1_descriptor([V1_fields(None) EXCEPT !.valid = FALSE], FALSE, None, <<>>)

NSNumber == <<"N", "S", "N", "u", "m", "b", "e", "r">>
NSManagedObject == <<"N", "S", "M", "a", "n", "a", "g", "e", "d", "O", "b", "j", "e", "c", "t">>
NSDate == <<"N", "S", "D", "a", "t", "e">>
NSDateTS == <<"N", "S", "D", "a", "t", "e", "T", "S">>
NSAtom == <<"N", "S", "A", "t", "o", "m">>

TaggedClass_Values_Lion ==
    (1 :> NSNumber) @@ (5 :> NSManagedObject) @@ (6 :> NSDate) @@ (7 :> NSDateTS)

TaggedClass_Values_NMOS ==
    (0 :> NSAtom) @@ (3 :> NSNumber) @@ (4 :> NSDateTS) @@ (5 :> NSManagedObject)
    @@ (6 :> NSDate)

\* Python's truth value of sys_params.is_lion (None is falsy)
Truthy(b) == b = Some(TRUE)

Tagged_lookup_AlwaysValid(pointer, val, class_bits, i_bits, table) ==
    [kind |-> "TaggedClass_Data", valid |-> TRUE,
     name |-> IF class_bits \in DOMAIN table THEN Some(table[class_bits]) ELSE None,
     valobj |-> pointer, val |-> val, class_bits |-> class_bits, i_bits |-> i_bits]

\* the name lookup of TaggedClass_Data.__init__ in the table is_lion selects
Tagged_lookup(pointer, val, class_bits, i_bits, table) ==
    [kind |-> "TaggedClass_Data", valid |-> class_bits \in DOMAIN table,
     name |-> IF class_bits \in DOMAIN table THEN Some(table[class_bits]) ELSE None,
     valobj |-> pointer, val |-> val, class_bits |-> class_bits, i_bits |-> i_bits]

TaggedClass_Data_NoShift(pointer, params) ==
    Tagged_lookup(pointer,
                  Shr64(And64(pointer, <<65280, 65535, 65535, 65535>>), 8),
                  Nat64(And64(pointer, U64(14))),
                  Nat64(Shr64(And64(pointer, U64(240)), 4)),
                  IF Truthy(params.is_lion) THEN TaggedClass_Values_Lion
                  ELSE TaggedClass_Values_NMOS)

TaggedClass_Data(pointer, params) ==
    Tagged_lookup(pointer,
                  Shr64(And64(pointer, <<65280, 65535, 65535, 65535>>), 8),
                  Nat64(Shr64(And64(pointer, U64(14)), 1)),
                  Nat64(Shr64(And64(pointer, U64(240)), 4)),
                  IF Truthy(params.is_lion) THEN TaggedClass_Values_Lion
                  ELSE TaggedClass_Values_NMOS)

\* is_valid() of whatever read_class_data returns
is_valid(d) ==
    CASE d.kind = "Class_Data_V2" -> IF d.valid THEN RwT_is_valid(d.data) ELSE FALSE
      [] d.kind = "Class_Data_V1" -> d.valid
      [] d.kind = "TaggedClass_Data" -> d.valid
      [] d.kind = "InvalidClass_Data" -> FALSE

\* class_name() of the three descriptor classes that define it
class_name(d) ==
    CASE d.kind = "Class_Data_V2" -> IF is_valid(d) THEN d.data.data.name ELSE None
      [] d.kind = "Class_Data_V1" -> IF is_valid(d) THEN d.name ELSE None
      [] d.kind = "TaggedClass_Data" -> IF is_valid(d) THEN d.name ELSE Some(FALSE)

info_bits(d) == IF is_valid(d) THEN Some(d.i_bits) ELSE None

----------------------------------------------------------------------------
(* cache.Cache: a plain associative store *)

Cache_look_for_key(c, key) == key \in DOMAIN c

Cache_get_value(c, key, default) ==
    IF Cache_look_for_key(c, key) THEN c[key] ELSE default

Cache_add_item(c, key, value, ok_to_replace) ==
    IF ~ok_to_replace /\ Cache_look_for_key(c, key) THEN c
    ELSE [k \in DOMAIN c \cup {key} |-> IF k = key THEN value ELSE c[k]]

----------------------------------------------------------------------------
(* ObjCRuntime *)

ObjCRuntime_is_tagged(o, params) ==
    /\ is_valid_pointer(o.unsigned_value, params.pointer_size, TRUE, FALSE)
    /\ ~is_valid_pointer(o.unsigned_value, params.pointer_size, FALSE, FALSE)

ObjCRuntime_is_valid(o, in_scope, params) ==
    IF ~in_scope THEN FALSE
    ELSE is_valid_pointer(o.unsigned_value, params.pointer_size, TRUE, FALSE)

\* what read_isa returns for the value v of the isa field, with the log entry:
\* GetValueAsUnsigned(1) gives 1 for an isa that cannot be read
isa_read(addr, v) ==
    [isa |-> IF v = None THEN None ELSE IF v = U64(1) THEN None ELSE v,
     log |-> <<Ev("read_child_of", "cfisa", addr, v)>>]

read_isa(o) ==
    IF o.isa_value # None THEN [isa |-> o.isa_value, log |-> <<>>]
    ELSE isa_read(Add64(o.unsigned_value, 0), read_child_of(o.unsigned_value, 0))

\* what read_class_data returns with nothing resolved
invalid_result(o, cache, l) ==
    [data |-> InvalidClass_Data, isa_value |-> o.isa_value, cache |-> cache, log |-> l]

\* the end of read_class_data: the walked descriptor w is cached if it is valid
walked_AlwaysInsert(w, isa, cache, l) ==
    [data |-> w.d, isa_value |-> isa,
     cache |-> Cache_add_item(cache, isa, w.d, TRUE),
     log |-> l \o w.log \o <<Ev("add_item", "isa_cache", isa, None)>>]

walked_NoInsert(w, isa, cache, l) ==
    [data |-> w.d, isa_value |-> isa, cache |-> cache, log |-> l \o w.log]

walked(w, isa, cache, l) ==
    IF is_valid(w.d)
    THEN [data |-> w.d, isa_value |-> isa,
          cache |-> Cache_add_item(cache, isa, w.d, TRUE),
          log |-> l \o w.log \o <<Ev("add_item", "isa_cache", isa, None)>>]
    ELSE [data |-> w.d, isa_value |-> isa, cache |-> cache, log |-> l \o w.log]

\* read_class_data after the cache lookup returned hit
looked_up_NoCache(hit, isa, params, cache, l) ==
    walked(IF params.runtime_version = Some(2) THEN Class_Data_V2(isa, params)
           ELSE Class_Data_V1(isa, params),
           isa, cache, l)

looked_up(hit, isa, params, cache, l) ==
    IF hit.kind # "None"
    THEN [data |-> hit, isa_value |-> isa, cache |-> cache, log |-> l]
    ELSE walked(IF params.runtime_version = Some(2) THEN Class_Data_V2(isa, params)
                ELSE Class_Data_V1(isa, params),
                isa, cache, l)

\* read_class_data after read_isa returned r
isa_known_Unchecked(r, o, params, cache) ==
    looked_up(Cache_get_value(cache, r.isa, NoneData), r.isa, params, cache,
              r.log \o <<Ev("get_value", "isa_cache", r.isa, None)>>)

isa_known(r, o, params, cache) ==
    IF r.isa = None THEN invalid_result(o, cache, r.log)
    ELSE IF r.isa = U64(1)
    THEN [invalid_result(o, cache, r.log) EXCEPT !.isa_value = r.isa]
    ELSE looked_up(Cache_get_value(cache, r.isa, NoneData), r.isa, params, cache,
                   r.log \o <<Ev("get_value", "isa_cache", r.isa, None)>>)

\* the tagged branch of read_class_data
tagged_result(tentative_tagged, o, cache) ==
    IF is_valid(tentative_tagged)
    THEN [data |-> tentative_tagged, isa_value |-> o.isa_value,
          cache |-> cache, log |-> <<>>]
    ELSE invalid_result(o, cache, <<>>)

\* the result, the wrapper's isa_value, the cache and the log after the call
read_class_data_ScopeFirst(o, in_scope, params, cache) ==
    IF ~ObjCRuntime_is_valid(o, in_scope, params) THEN invalid_result(o, cache, <<>>)
    ELSE isa_known(read_isa(o), o, params, cache)

read_class_data_Unvalidated(o, in_scope, params, cache) ==
    IF ObjCRuntime_is_tagged(o, params)
    THEN IF params.runtime_version = Some(2)
         THEN tagged_result(TaggedClass_Data(o.unsigned_value, params), o, cache)
         ELSE invalid_result(o, cache, <<>>)
    ELSE isa_known(read_isa(o), o, params, cache)

read_class_data(o, in_scope, params, cache) ==
    IF ObjCRuntime_is_tagged(o, params)
    THEN IF params.runtime_version = Some(2)
         THEN tagged_result(TaggedClass_Data(o.unsigned_value, params), o, cache)
         ELSE invalid_result(o, cache, <<>>)
    ELSE IF ~ObjCRuntime_is_valid(o, in_scope, params)
    THEN invalid_result(o, cache, <<>>)
    ELSE isa_known(read_isa(o), o, params, cache)

------------------------------------------------------------------------
(* The inspected process: one class, two objects of it, one damaged cell *)

OBJ == U64(4096)
OBJ2 == U64(4352)
CLS == U64(8192)
META == U64(12288)
SUPER == U64(16384)
CACHEP == U64(20480)
VTABLE == U64(24576)
RW == U64(28672)
RO == U64(32768)
NAME == U64(36864)

\* v with bit 47 set
Hi(v) == <<v[1], v[2], v[3] + 32768, v[4]>>

NameOffset(ps) == IF ps = 8 THEN 24 ELSE 16

GoodCells(ps, rv) ==
    { <<OBJ, CLS>>, <<OBJ2, CLS>>,
      <<CLS, META>>,
      <<Add64(CLS, ps), SUPER>>,
      <<Add64(CLS, 2 * ps), IF rv = Some(2) THEN CACHEP ELSE NAME>>,
      <<Add64(CLS, 3 * ps), VTABLE>>,
      <<Add64(CLS, 4 * ps), RW>>,
      <<Add64(CLS, 5 * ps), U64(24)>>,
      <<Add64(RW, 8), RO>>,
      <<Add64(RO, 8), U64(24)>>,
      <<Add64(RO, NameOffset(ps)), NAME>> }

GoodStrs ==
    { <<NAME, <<"F", "o", "o">> >>, <<Add64(NAME, 1), <<"o", "o">> >> }

NoFault == [kind |-> "none", addr |-> Zero, val |-> None]

\* the cells the walk goes through, each with its damaged contents
CellFaults(ps, rv) ==
    LET cells == { c \in GoodCells(ps, rv) :
                     c[1] \in {OBJ, CLS, Add64(CLS, ps), Add64(CLS, 2 * ps),
                               Add64(CLS, 3 * ps), Add64(CLS, 4 * ps),
                               Add64(RW, 8), Add64(RO, NameOffset(ps))} }
        bad(g) == {None, Zero, U64(1), Add64(g, 1), Add64(g, 2), Add64(g, 4)}
                  \cup (IF ps = 8 THEN {Hi(g)} ELSE {})
    IN { [kind |-> "cell", addr |-> c[1], val |-> v] : <<c, v>> \in
           UNION { {c0} \X bad(c0[2]) : c0 \in cells } }

StrFaults ==
    { [kind |-> "str", addr |-> NAME, val |-> v] :
        v \in {None, Some(<<>>), Some(<<"F", " ", "o">>)} }

\* the function of a set of <<argument, value>> pairs
MkFun(pairs) ==
    [a \in {p[1] : p \in pairs} |-> (CHOOSE p \in pairs : p[1] = a)[2]]

\* on a 64-bit process the image is also mapped with bit 47 of the address set
Mirror(ps, pairs) ==
    pairs \cup (IF ps = 8 THEN { <<Hi(p[1]), p[2]>> : p \in pairs } ELSE {})

MemImage(ps, rv, f) ==
    LET good == GoodCells(ps, rv)
        cells == IF f.kind # "cell" THEN good
                 ELSE { c \in good : c[1] # f.addr }
                      \cup (IF f.val = None THEN {} ELSE {<<f.addr, f.val>>})
    IN MkFun(Mirror(ps, cells))

StrImage(ps, f) ==
    LET cells == IF f.kind # "str" THEN GoodStrs
                 ELSE { c \in GoodStrs : c[1] # f.addr }
                      \cup (IF f.val = None THEN {} ELSE {<<f.addr, f.val[1]>>})
    IN MkFun(Mirror(ps, cells))

\* the object pointers handed to the formatters
\* class bits 0 (NMOS table only), 1 (Lion table only), 2 (neither), 5 (both)
TaggedPointers == { U64(256 + 160 + 2 * cb + 1) : cb \in {0, 1, 2, 5} }

PlainPointers == { Zero, U64(4), U64(6), OBJ, OBJ2, Add64(OBJ2, 8) }

ObjPointers == TaggedPointers \cup PlainPointers

\* no result of a call made on a descriptor
NoOut == [kind |-> "none", raised |-> "", bool |-> FALSE, num |-> Zero, str |-> <<>>]

NoCall == [fn |-> "none", pointer |-> None, pointer_size |-> 0,
           allow_tagged |-> FALSE, allow_NULL |-> FALSE, is_lion |-> None,
           align |-> FALSE, ok_to_replace |-> FALSE,
           done |-> FALSE, ret |-> FALSE, out |-> NoOut,
           desc |-> NoneData]

NoObj == [made |-> FALSE, unsigned_value |-> Zero, isa_value |-> None]

NotResolved == [made |-> FALSE, value |-> Zero, in_scope |-> FALSE]

SystemParameters(ps, rv, lion) ==
    [pointer_size |-> ps, is_64_bit |-> (ps = 8), runtime_version |-> rv,
     is_lion |-> lion]

Init ==
    \E ps \in {4, 8}, rv \in {Some(1), Some(2), None},
       lion \in {Some(TRUE), Some(FALSE), None} :
      \E f \in {NoFault} \cup CellFaults(ps, rv) \cup StrFaults :
        /\ f = NoFault \/ (lion = Some(FALSE) /\ rv # None)
        /\ sys = SystemParameters(ps, rv, lion)
        /\ mem = MemImage(ps, rv, f)
        /\ strs = StrImage(ps, f)
        /\ isa_cache = <<>>
        /\ obj = NoObj
        /\ data = NoneData
        /\ resolved = NotResolved
        /\ log = <<>>
        /\ call = NoCall
        /\ NoProcess /\ NoFormatter /\ NoRoot

\* runtime = ObjCRuntime(valobj)
ObjCRuntime_init(p) ==
    /\ obj' = [made |-> TRUE, unsigned_value |-> p, isa_value |-> None]
    /\ UNCHANGED <<call, sys, mem, strs, isa_cache, data, resolved, log>>
    /\ UNCHANGED <<process_vars, formatter_vars, root_vars>>

\* the state after a read_class_data call that returned r
returned(r, in_scope) ==
    /\ data' = r.data
    /\ log' = r.log
    /\ isa_cache' = r.cache
    /\ obj' = [obj EXCEPT !.isa_value = r.isa_value]
    /\ resolved' = [made |-> TRUE, value |-> obj.unsigned_value, in_scope |-> in_scope]

\* runtime.read_class_data(), the value being in scope or not
Do_read_class_data(in_scope) ==
    /\ obj.made
    /\ returned(read_class_data(obj, in_scope, sys, isa_cache), in_scope)
    /\ UNCHANGED <<call, sys, mem, strs>>
    /\ UNCHANGED <<process_vars, formatter_vars, root_vars>>

Next ==
    \/ \E p \in ObjPointers : ObjCRuntime_init(p)
    \/ \E in_scope \in BOOLEAN : Do_read_class_data(in_scope)

Spec == Init /\ [][Next]_vars

----------------------------------------------------------------------------
(* The pure helpers, each applied once to arguments drawn from bounded sets *)

\* 64-bit values whose limbs are all-zero, one, all-but-the-top-bit, the top bit
\* and all-ones, and the values with a single bit set
LimbValues == {0, 1, 32767, 32768, 65535}

WideValues ==
    (LimbValues \X LimbValues \X LimbValues \X LimbValues)
    \cup { [j \in 1..4 |-> IF j = (i \div 16) + 1 THEN Pow2(i % 16) ELSE 0] : i \in 0..63 }

PointerValues ==
    { U64(n) : n \in 0..MaxValue }
    \cup { <<0, 0, 0, 1>>, <<0, 1, 0, 0>>, <<4, 1, 0, 0>>, <<8, 0, 32768, 0>>,
           <<65535, 65535, 65535, 65535>>, <<65532, 65535, 65535, 65535>>,
           <<65528, 65535, 65535, 65535>>, None }

TaggedValues == { U64(2 * n + 1) : n \in 0..(128 * (MaxPayload + 1) - 1) }

UtilCalls ==
    { [NoCall EXCEPT !.fn = "is_valid_pointer", !.pointer = v, !.pointer_size = ps,
                     !.allow_tagged = t, !.allow_NULL = n] :
        v \in PointerValues, ps \in {4, 8}, t \in BOOLEAN, n \in BOOLEAN }
    \cup { [NoCall EXCEPT !.fn = "is_allowed_pointer", !.pointer = v] :
             v \in WideValues \cup {None} }
    \cup { [NoCall EXCEPT !.fn = "TaggedClass_Data", !.pointer = v, !.is_lion = l] :
             v \in TaggedValues, l \in {Some(TRUE), Some(FALSE), None} }

InitUtil ==
    /\ call \in UtilCalls
    /\ sys = SystemParameters(8, Some(2), None)
    /\ mem = <<>>
    /\ strs = <<>>
    /\ isa_cache = <<>>
    /\ obj = NoObj
    /\ data = NoneData
    /\ resolved = NotResolved
    /\ log = <<>>
    /\ NoProcess /\ NoFormatter /\ NoRoot

Call_is_valid_pointer ==
    /\ call.fn = "is_valid_pointer" /\ ~call.done
    /\ call' = [call EXCEPT !.done = TRUE,
                            !.ret = is_valid_pointer(call.pointer, call.pointer_size,
                                                     call.allow_tagged, call.allow_NULL)]
    /\ UNCHANGED <<sys, mem, strs, isa_cache, obj, data, resolved, log>>
    /\ UNCHANGED <<process_vars, formatter_vars, root_vars>>

Call_is_allowed_pointer ==
    /\ call.fn = "is_allowed_pointer" /\ ~call.done
    /\ call' = [call EXCEPT !.done = TRUE, !.ret = is_allowed_pointer(call.pointer)]
    /\ UNCHANGED <<sys, mem, strs, isa_cache, obj, data, resolved, log>>
    /\ UNCHANGED <<process_vars, formatter_vars, root_vars>>

Call_TaggedClass_Data ==
    /\ call.fn = "TaggedClass_Data" /\ ~call.done
    /\ call' = [call EXCEPT !.done = TRUE,
                            !.desc = TaggedClass_Data(call.pointer,
                                                      [sys EXCEPT !.is_lion = call.is_lion])]
    /\ UNCHANGED <<sys, mem, strs, isa_cache, obj, data, resolved, log>>
    /\ UNCHANGED <<process_vars, formatter_vars, root_vars>>

NextUtil ==
    \/ Call_is_valid_pointer
    \/ Call_is_allowed_pointer
    \/ Call_TaggedClass_Data

SpecUtil == InitUtil /\ [][NextUtil]_vars

----------------------------------------------------------------------------
(* Claims on the pure helpers (checked under SpecUtil) *)

\* v is odd / a multiple of 4 or 8, read off its bits
IsOdd(v) == Bit(v, 0) = 1

IsMultipleOf(v, ps) == \A i \in 0..(IF ps = 8 THEN 2 ELSE 1) : Bit(v, i) = 0

\* C1: is_valid_pointer(v, pointerSize, allow_tagged, allow_NULL) is true exactly
\* when v = 0 and allow_NULL, or v is odd and allow_tagged, or v is a non-zero
\* multiple of pointerSize; None is never accepted.
C1_ValidPointer ==
    (call.fn = "is_valid_pointer" /\ call.done) =>
        IF call.pointer = None THEN call.ret = FALSE
        ELSE call.ret = \/ (call.pointer = Zero /\ call.allow_NULL)
                        \/ (IsOdd(call.pointer) /\ call.allow_tagged)
                        \/ (call.pointer # Zero /\ IsMultipleOf(call.pointer, call.pointer_size))

\* C1 witness: zero was rejected without allow_NULL (an odd value with allow_tagged
\* and an aligned value are met on other branches of the same check)
C1_Witness ==
    /\ call.fn = "is_valid_pointer" /\ call.done
    /\ call.pointer = Zero /\ ~call.allow_NULL /\ call.ret = FALSE

\* C2: is_allowed_pointer(v) is false whenever one of bits 47..63 of v is set and
\* true when none is; None is rejected.
C2_AllowedPointer ==
    (call.fn = "is_allowed_pointer" /\ call.done) =>
        IF call.pointer = None THEN call.ret = FALSE
        ELSE call.ret = (\A i \in 47..63 : Bit(call.pointer, i) = 0)

\* C2 witness: a value whose only set bit is bit 47 was rejected
C2_Witness ==
    /\ call.fn = "is_allowed_pointer" /\ call.done
    /\ call.pointer = <<0, 0, 32768, 0>> /\ call.ret = FALSE

\* bits lo..lo+n-1 of v as a number
BitsOf(v, lo, n) ==
    LET RECURSIVE sum(_)
        sum(k) == IF k = n THEN 0 ELSE Bit(v, lo + k) * Pow2(k) + sum(k + 1)
    IN sum(0)

SelectedTable(l) == IF l = Some(TRUE) THEN TaggedClass_Values_Lion ELSE TaggedClass_Values_NMOS

\* C5: decoding an odd value whose bits 1..3 are an entry of the table is_lion
\* selects (Lion when is_lion is true, non-Lion otherwise) gives a valid
\* descriptor with that entry's name, class bits equal to bits 1..3 and info bits
\* equal to bits 4..7 of the value, whatever the payload.
C5_TaggedRoundTrip ==
    (call.fn = "TaggedClass_Data" /\ call.done) =>
        /\ call.desc.class_bits = BitsOf(call.pointer, 1, 3)
        /\ call.desc.i_bits = BitsOf(call.pointer, 4, 4)
        /\ BitsOf(call.pointer, 1, 3) \in DOMAIN SelectedTable(call.is_lion) =>
             /\ is_valid(call.desc)
             /\ class_name(call.desc)
                  = Some(SelectedTable(call.is_lion)[BitsOf(call.pointer, 1, 3)])
             /\ info_bits(call.desc) = Some(BitsOf(call.pointer, 4, 4))

\* C5 witness: class bits 7 with a payload and info bits, decoded on Lion as NSDateTS
C5_Witness ==
    /\ call.fn = "TaggedClass_Data" /\ call.done
    /\ call.is_lion = Some(TRUE)
    /\ call.pointer = U64(512 + 160 + 14 + 1)
    /\ class_name(call.desc) = Some(NSDateTS)

----------------------------------------------------------------------------
(* Claims on read_class_data (checked under Spec) *)

\* the entries of a log that are reads of the process image
IsRead(e) == e.op \in {"read_child_of", "read_ascii"}

\* the entries of a log that are operations on the isa cache
IsCacheOp(e) == e.op \in {"get_value", "add_item"}

\* the entries of a log that read class metadata (anything but the object's isa)
IsMetaRead(e) == IsRead(e) /\ e.field # "cfisa"

NoneIn(l, P(_)) == \A i \in 1..Len(l) : ~P(l[i])

HasHighBits(v) == \E i \in 47..63 : Bit(v, i) = 1

\* C3: an object pointer that is 0, or even and no multiple of pointerSize, gives
\* an invalid descriptor without any read of target memory and without any
\* operation on the isa cache, which stays as it was.
C3_ImplausibleNoReads ==
    [][\A in_scope \in BOOLEAN :
         ( /\ Do_read_class_data(in_scope)
           /\ \/ obj.unsigned_value = Zero
              \/ (~IsOdd(obj.unsigned_value)
                  /\ ~IsMultipleOf(obj.unsigned_value, sys.pointer_size)) )
         => /\ data' = InvalidClass_Data
            /\ log' = <<>>
            /\ isa_cache' = isa_cache]_vars

\* C3 witness: the even misaligned pointer 6 was resolved, in scope, with a class
\* already in the cache
C3_Witness ==
    /\ resolved.made /\ resolved.value = U64(6) /\ resolved.in_scope
    /\ data = InvalidClass_Data /\ log = <<>>
    /\ DOMAIN isa_cache # {}

\* C4: resolving an odd object pointer reads no target memory and leaves the isa
\* cache unchanged; under runtime version 2 the result is the tagged decoder's
\* descriptor, or the invalid descriptor when the decoder rejects the value, and
\* under any other runtime version it is the invalid descriptor.
C4_TaggedFrame ==
    [][\A in_scope \in BOOLEAN :
         (Do_read_class_data(in_scope) /\ IsOdd(obj.unsigned_value))
         => /\ log' = <<>>
            /\ isa_cache' = isa_cache
            /\ data' = IF sys.runtime_version # Some(2) THEN InvalidClass_Data
                       ELSE IF TaggedClass_Data(obj.unsigned_value, sys).valid
                       THEN TaggedClass_Data(obj.unsigned_value, sys)
                       ELSE InvalidClass_Data]_vars

\* C4 witness: a tagged pointer was decoded under runtime version 2 with a class
\* already in the cache
C4_Witness ==
    /\ resolved.made /\ IsOdd(resolved.value)
    /\ sys.runtime_version = Some(2)
    /\ data.kind = "TaggedClass_Data" /\ log = <<>>
    /\ DOMAIN isa_cache # {}

\* C6: an odd object pointer whose class bits are not in the selected tag table
\* resolves to the invalid descriptor, the one any other invalid pointer gets.
C6_UnknownTagInvalid ==
    ( /\ resolved.made /\ IsOdd(resolved.value)
      /\ BitsOf(resolved.value, 1, 3) \notin DOMAIN SelectedTable(sys.is_lion) )
    => ~is_valid(data) /\ data = InvalidClass_Data

\* C6 witness: class bits 0, a tag of the non-Lion table only, resolved on Lion
\* under runtime version 2
C6_Witness ==
    /\ resolved.made /\ IsOdd(resolved.value)
    /\ BitsOf(resolved.value, 1, 3) = 0
    /\ sys.is_lion = Some(TRUE) /\ sys.runtime_version = Some(2)
    /\ data = InvalidClass_Data

\* the object pointer is non-zero and a multiple of pointerSize
IsPlainPointer(v) == v # Zero /\ IsMultipleOf(v, sys.pointer_size)

\* C7: for a plausible non-tagged object pointer in scope whose isa field cannot
\* be read or holds the sentinel 1, the result is the invalid descriptor, the isa
\* cache is not consulted and no class metadata is read.
C7_BadIsaInvalid ==
    ( /\ resolved.made /\ resolved.in_scope /\ IsPlainPointer(resolved.value)
      /\ \/ resolved.value \notin DOMAIN mem
         \/ mem[resolved.value] = U64(1) )
    => /\ data = InvalidClass_Data
       /\ NoneIn(log, IsCacheOp)
       /\ NoneIn(log, IsMetaRead)
       /\ Len(log) = 1 /\ log[1].field = "cfisa"

\* C7 witness: the isa field of the object holds the sentinel 1
C7_Witness ==
    /\ resolved.made /\ resolved.in_scope /\ resolved.value = OBJ
    /\ OBJ \in DOMAIN mem /\ mem[OBJ] = U64(1)
    /\ data = InvalidClass_Data /\ Len(log) = 1

\* the input of the call now made is the input of the call made before it
SameInput(in_scope) ==
    /\ resolved.made
    /\ resolved.value = obj.unsigned_value
    /\ resolved.in_scope = in_scope

\* C8 as first stated: resolving the same valid object pointer (in scope, non-zero,
\* odd or aligned) twice gives the same descriptor, and the second resolution
\* reads no class metadata.
C8_Original ==
    [][\A in_scope \in BOOLEAN :
         ( /\ Do_read_class_data(in_scope) /\ SameInput(in_scope) /\ in_scope
           /\ obj.unsigned_value # Zero
           /\ IsOdd(obj.unsigned_value)
              \/ IsMultipleOf(obj.unsigned_value, sys.pointer_size) )
         => /\ data' = data
            /\ NoneIn(log', IsMetaRead)]_vars

\* C8: resolving the same object pointer twice against the unchanged image gives
\* the same descriptor both times; when the first resolution gave a valid class
\* descriptor, the second returns the descriptor cached for that class address,
\* reads no class metadata and leaves the cache as it was.
C8_Idempotent ==
    [][\A in_scope \in BOOLEAN :
         (Do_read_class_data(in_scope) /\ SameInput(in_scope))
         => /\ data' = data
            /\ (data.kind \in {"Class_Data_V1", "Class_Data_V2"} /\ is_valid(data))
               => /\ NoneIn(log', IsMetaRead)
                  /\ data.valobj \in DOMAIN isa_cache
                  /\ data' = isa_cache[data.valobj]
                  /\ isa_cache' = isa_cache]_vars

\* C8 witness: a second resolution of the object answered from the cache: the
\* wrapper is a new one, its log holds the isa read and the cache lookup only
C8_Witness ==
    /\ resolved.made /\ resolved.value = OBJ /\ resolved.in_scope
    /\ is_valid(data) /\ data.kind = "Class_Data_V2"
    /\ Len(log) = 2 /\ log[1].field = "cfisa" /\ log[2].op = "get_value"
    /\ CLS \in DOMAIN isa_cache /\ isa_cache[CLS] = data

\* the value a log entry read fails is_valid_pointer (null allowed for the
\* superclass isa only)
FailsValid(e) ==
    ~is_valid_pointer(e.val, sys.pointer_size, FALSE, e.field = "superclassIsaPointer")

\* once entry i of the log is a read of one of the fields and its value fails
\* is_valid_pointer, the descriptor is invalid and no read follows entry i
AbortsAt(fields) ==
    \A i \in 1..Len(log) :
        (log[i].op = "read_child_of" /\ log[i].field \in fields /\ FailsValid(log[i]))
        => /\ ~is_valid(data)
           /\ \A j \in (i + 1)..Len(log) : ~IsRead(log[j])

\* C9 as first stated: the chain includes the name pointer.
C9_Original ==
    resolved.made =>
        AbortsAt({"cfisa", "isaPointer", "superclassIsaPointer", "dataPointer",
                  "roPointer", "namePointer"})

\* C9: in both walks, once the class address, the class isa, the superclass isa
\* (null allowed), the data pointer or the ro pointer fails is_valid_pointer, the
\* descriptor is invalid and nothing later in the chain is read. The name pointer
\* is exempt: it is never validated and the name is read through it.
C9_AbortOnBadLink ==
    resolved.made =>
        AbortsAt({"cfisa", "isaPointer", "superclassIsaPointer", "dataPointer",
                  "roPointer"})

\* C9 witness: a V2 walk stopped at a misaligned data pointer, the superclass isa
\* and the rest of the chain unread
C9_Witness ==
    /\ resolved.made /\ data.kind = "Class_Data_V2" /\ ~is_valid(data)
    /\ Len(log) = 6
    /\ log[6].field = "dataPointer" /\ log[6].val = Add64(RW, 2)

\* p passed is_valid_pointer and is_allowed_pointer
ValidAndAllowed(p) ==
    /\ is_valid_pointer(p, sys.pointer_size, FALSE, FALSE)
    /\ ~HasHighBits(p)

\* C10 as first stated: a valid V2 descriptor has every pointer of the chain
\* class_t, class_rw_t, class_ro_t, name pointer valid and free of bits 47..63.
C10_Original ==
    (resolved.made /\ data.kind = "Class_Data_V2" /\ is_valid(data))
    => /\ ValidAndAllowed(data.valobj)
       /\ ValidAndAllowed(data.dataPointer)
       /\ ValidAndAllowed(data.data.roPointer)
       /\ ValidAndAllowed(data.data.data.namePointer)

\* C10: a valid V2 descriptor has a class_t address and a class_ro_t pointer that
\* pass is_valid_pointer, a class_rw_t pointer that passes is_valid_pointer and
\* has none of bits 47..63 set, and a name that is a valid identifier; a chain
\* whose class_rw_t pointer has one of bits 47..63 set gives an invalid
\* descriptor that exposes no name.
C10_V2ChainChecked ==
    resolved.made =>
      /\ (data.kind = "Class_Data_V2" /\ is_valid(data))
         => /\ is_valid_pointer(data.valobj, sys.pointer_size, FALSE, FALSE)
            /\ ValidAndAllowed(data.dataPointer)
            /\ is_valid_pointer(data.data.roPointer, sys.pointer_size, FALSE, FALSE)
            /\ is_valid_identifier(data.data.data.name)
      /\ \A i \in 1..Len(log) :
            ( /\ log[i].field = "dataPointer" /\ log[i].val # None
              /\ HasHighBits(log[i].val) )
            => ~is_valid(data) /\ class_name(data) = None

\* C10 witness: the walk read a class_rw_t pointer with bit 47 set and gave an
\* invalid descriptor without a name
C10_Witness ==
    /\ resolved.made /\ data.kind = "Class_Data_V2"
    /\ Len(log) = 6 /\ log[6].field = "dataPointer" /\ log[6].val = Hi(RW)
    /\ ~is_valid(data) /\ class_name(data) = None

\* the pointers check_valid reads from the class_t
ClassFields ==
    {"isaPointer", "cachePointer", "vtablePointer", "dataPointer",
     "superclassIsaPointer"}

\* C11 as first stated: during a resolution no read is issued at an address that
\* has one of bits 47..63 set.
C11_Original ==
    resolved.made =>
        \A i \in 1..Len(log) : IsRead(log[i]) => ~HasHighBits(log[i].addr)

\* C11: in the V2 walk, once a pointer read from the class_t has one of bits
\* 47..63 set, nothing more is read: the rejection comes before any read at or
\* relative to that pointer. (The object address, the class address, the
\* class_ro_t pointer and the name pointer are not put to this test.)
C11_AllowedBeforeDereference ==
    (resolved.made /\ sys.runtime_version = Some(2)) =>
        \A i \in 1..Len(log) :
            ( /\ log[i].op = "read_child_of" /\ log[i].field \in ClassFields
              /\ log[i].val # None /\ HasHighBits(log[i].val) )
            => \A j \in (i + 1)..Len(log) : ~IsRead(log[j])

\* C11 witness: a V2 walk that read a cache pointer with bit 47 set and stopped
C11_Witness ==
    /\ resolved.made /\ sys.runtime_version = Some(2)
    /\ Len(log) = 4
    /\ log[4].field = "cachePointer" /\ log[4].val = Hi(CACHEP)
    /\ data.kind = "Class_Data_V2" /\ ~is_valid(data)

\* the characters a class name may be made of
NameAlphabet ==
    {"$", "%", "_", ".", "-"}
    \cup {"A", "B", "C", "D", "E", "F", "G", "H", "I", "J", "K", "L", "M",
          "N", "O", "P", "Q", "R", "S", "T", "U", "V", "W", "X", "Y", "Z"}
    \cup {"a", "b", "c", "d", "e", "f", "g", "h", "i", "j", "k", "l", "m",
          "n", "o", "p", "q", "r", "s", "t", "u", "v", "w", "x", "y", "z"}
    \cup {"0", "1", "2", "3", "4", "5", "6", "7", "8", "9"}

\* a name as read from the process that is non-empty and made of NameAlphabet
GoodName(name) ==
    /\ name # None
    /\ Len(name[1]) > 0
    /\ \A i \in 1..Len(name[1]) : name[1][i] \in NameAlphabet

\* C12: a valid V1 or V2 descriptor has a name that is non-empty and made of
\* [A-Za-z0-9$%_.-], and it is the name the walk read; a walk that read an
\* unreadable, empty or otherwise-charactered name gives an invalid descriptor.
C12_ValidName ==
    (resolved.made /\ data.kind \in {"Class_Data_V1", "Class_Data_V2"}) =>
        /\ is_valid(data) => GoodName(class_name(data))
        /\ \A i \in 1..Len(log) :
              log[i].op = "read_ascii" =>
                 /\ ~GoodName(log[i].val) => ~is_valid(data)
                 /\ is_valid(data) => class_name(data) = log[i].val

\* C12 witness: the walk read a name with a blank in it and the descriptor is
\* invalid
C12_Witness ==
    /\ resolved.made /\ data.kind \in {"Class_Data_V1", "Class_Data_V2"}
    /\ Len(log) > 0
    /\ log[Len(log)].op = "read_ascii"
    /\ log[Len(log)].val = Some(<<"F", " ", "o">>)
    /\ ~is_valid(data)

----------------------------------------------------------------------------
(* The accessors of the descriptors *)

\* what a call gives back: None, a truth value, a number, a string, or the
\* exception it raised
Ret_bool(b) == [NoOut EXCEPT !.kind = "bool", !.bool = b]

Ret_None == [NoOut EXCEPT !.kind = "None"]

Ret_num(n) == IF n = None THEN Ret_None ELSE [NoOut EXCEPT !.kind = "num", !.num = n]

Ret_str(s) == IF s = None THEN Ret_None ELSE [NoOut EXCEPT !.kind = "str", !.str = s[1]]

Raise(e) == [NoOut EXCEPT !.kind = "raise", !.raised = e]

NSKVONotifying_ ==
    <<"N", "S", "K", "V", "O", "N", "o", "t", "i", "f", "y", "i", "n", "g", "_">>

\* '__NSCFType' and 'NSCFType'
NSCFType == <<"N", "S", "C", "F", "T", "y", "p", "e">>

UU_NSCFType == <<"_", "_">> \o NSCFType

\* str.startswith
startswith(str, prefix) ==
    /\ Len(str) >= Len(prefix)
    /\ SubSeq(str, 1, Len(prefix)) = prefix

is_kvo_AnyNotifying(d) ==
    CASE d.kind \in {"Class_Data_V1", "Class_Data_V2"} ->
           Ret_bool(is_valid(d) /\ startswith(class_name(d)[1], SubSeq(NSKVONotifying_, 1, 14)))
      [] d.kind = "TaggedClass_Data" -> Ret_bool(FALSE)
      [] d.kind = "InvalidClass_Data" -> Raise("AttributeError")

\* is_kvo(): InvalidClass_Data defines is_valid only
is_kvo(d) ==
    CASE d.kind \in {"Class_Data_V1", "Class_Data_V2"} ->
           IF is_valid(d) THEN Ret_bool(startswith(class_name(d)[1], NSKVONotifying_))
           ELSE Ret_bool(FALSE)
      [] d.kind = "TaggedClass_Data" -> Ret_bool(FALSE)
      [] d.kind = "InvalidClass_Data" -> Raise("AttributeError")

\* is_cftype(): Class_Data_V2 has no attribute name (the name is data.data.name);
\* an invalid V1 or V2 descriptor falls off the end of the method
is_cftype(d) ==
    CASE d.kind = "Class_Data_V2" ->
           IF is_valid(d) THEN Raise("AttributeError") ELSE Ret_None
      [] d.kind = "Class_Data_V1" ->
           IF is_valid(d) THEN Ret_bool(d.name[1] = UU_NSCFType \/ d.name[1] = NSCFType)
           ELSE Ret_None
      [] d.kind = "TaggedClass_Data" -> Ret_bool(FALSE)
      [] d.kind = "InvalidClass_Data" -> Raise("AttributeError")

is_tagged_Always(d) == Ret_bool(TRUE)

is_tagged(d) ==
    CASE d.kind \in {"Class_Data_V1", "Class_Data_V2"} -> Ret_bool(FALSE)
      [] d.kind = "TaggedClass_Data" -> Ret_bool(TRUE)
      [] d.kind = "InvalidClass_Data" -> Raise("AttributeError")

\* get_superclass(): sys_params has no attribute addr_ptr_type (it is an attribute
\* of sys_params.types_cache), so the argument list of CreateChildAtOffset raises
\* before anything is read
get_superclass(d) ==
    CASE d.kind \in {"Class_Data_V1", "Class_Data_V2"} ->
           IF is_valid(d) THEN Raise("AttributeError") ELSE Ret_None
      [] d.kind = "TaggedClass_Data" -> Ret_None
      [] d.kind = "InvalidClass_Data" -> Raise("AttributeError")

\* class_name() as a call
call_class_name(d) ==
    CASE d.kind \in {"Class_Data_V1", "Class_Data_V2"} -> Ret_str(class_name(d))
      [] d.kind = "TaggedClass_Data" ->
           IF is_valid(d) THEN Ret_str(class_name(d)) ELSE Ret_bool(FALSE)
      [] d.kind = "InvalidClass_Data" -> Raise("AttributeError")

instance_size_NoValidCheck(d, align, params) ==
    CASE d.kind \in {"Class_Data_V1", "Class_Data_V2"} -> Raise("AttributeError")
      [] d.kind = "TaggedClass_Data" -> Ret_num(U64(params.pointer_size))
      [] d.kind = "InvalidClass_Data" -> Raise("AttributeError")

\* instance_size(align) of the descriptors read_class_data returns. Class_Data_V2
\* asks self.rwt.rot, and self.rwt is an SBValue, which has no attribute rot;
\* Class_Data_V1 tests self.instanceSize, which is never assigned.
instance_size(d, align, params) ==
    CASE d.kind \in {"Class_Data_V1", "Class_Data_V2"} ->
           IF is_valid(d) THEN Raise("AttributeError") ELSE Ret_None
      [] d.kind = "TaggedClass_Data" ->
           IF is_valid(d) THEN Ret_num(U64(params.pointer_size)) ELSE Ret_None
      [] d.kind = "InvalidClass_Data" -> Raise("AttributeError")

\* a value read with the type uint32_t
read_uint32(v) == IF v = None THEN None ELSE <<v[1], v[2], 0, 0>>

\* Python's ~m on the 64 bits kept here
Not64(m) == <<W - 1 - m[1], W - 1 - m[2], W - 1 - m[3], W - 1 - m[4]>>

\* ((unalign + k) & ~k) % 0x100000000, k = 7 or 3
align_up(unalign, k) == read_uint32(And64(Add64(unalign, k), Not64(U64(k))))

\* if self.instanceSize == None: self.instanceSize = read_child_of(valobj, 8, uint32_t)
RoT_fetch(f) ==
    IF f.rot.instanceSize # None THEN f
    ELSE [f EXCEPT !.rot.instanceSize = read_uint32(read_child_of(f.rot.valobj, 8)),
                   !.log = Append(@, Ev("read_child_of", "instanceSize",
                                        Add64(f.rot.valobj, 8),
                                        read_uint32(read_child_of(f.rot.valobj, 8))))]

\* the align branch, f being the state after self.instance_size(False): a size
\* that could not be read is None, and None + 7 raises
RoT_aligned(f, params) ==
    IF f.rot.instanceSize = None THEN [f EXCEPT !.ret = Raise("TypeError")]
    ELSE [f EXCEPT !.ret = Ret_num(align_up(f.rot.instanceSize,
                                        IF params.is_64_bit THEN 7 ELSE 3))]

RoT_sized(f, align, params) ==
    IF align THEN RoT_aligned(RoT_fetch(f), params)
    ELSE [f EXCEPT !.ret = Ret_num(f.rot.instanceSize)]

\* RoT_Data.instance_size(align): the result, the class_ro_t descriptor after the
\* call and the reads made
RoT_instance_size(rot, align, params) ==
    IF ~RoT_is_valid(rot) THEN [ret |-> Ret_None, rot |-> rot, log |-> <<>>]
    ELSE RoT_sized(RoT_fetch([ret |-> Ret_None, rot |-> rot, log |-> <<>>]),
                   align, params)

----------------------------------------------------------------------------
(* A resolved descriptor and the calls made on it *)

Foo == <<"F", "o", "o">>

\* the names the class of the inspected process goes by
ClassNames ==
    { NSKVONotifying_ \o Foo, NSKVONotifying_, SubSeq(NSKVONotifying_, 1, 14) \o Foo,
      <<"X">> \o NSKVONotifying_ \o Foo,
      NSCFType, UU_NSCFType, <<"_">> \o NSCFType, NSCFType \o <<"s">>,
      <<"F", " ", "o">> }

NameFaults == { [kind |-> "str", addr |-> NAME, val |-> Some(n)] : n \in ClassNames }

\* instance sizes: small ones, the largest 32-bit ones, one with the next word
\* set in the four bytes that follow, and an unreadable one
InstanceSizes ==
    { U64(n) : n \in {0, 1, 8, 10, 13, 16} }
    \cup { <<65535, 65535, 0, 0>>, <<65529, 65535, 0, 0>>, <<65528, 65535, 0, 0>>,
           <<10, 0, 1, 0>>, None }

\* the cell instance_size reads: class + 5 * pointer_size (V1), class_ro_t + 8 (V2)
SizeCell(ps, rv) == IF rv = Some(2) THEN Add64(RO, 8) ELSE Add64(CLS, 5 * ps)

SizeFaults(ps, rv) ==
    { [kind |-> "cell", addr |-> SizeCell(ps, rv), val |-> v] : v \in InstanceSizes }

\* a class whose isa is null, an object whose isa cannot be read
BrokenCells ==
    { [kind |-> "cell", addr |-> CLS, val |-> Zero],
      [kind |-> "cell", addr |-> OBJ, val |-> None] }

\* a tagged pointer of both tables, one of neither, null and an object
DescPointers == { U64(256 + 160 + 2 * 5 + 1), U64(256 + 160 + 2 * 2 + 1), Zero, OBJ }

InitDesc ==
    \E ps \in {4, 8}, rv \in {Some(1), Some(2)}, lion \in {Some(TRUE), Some(FALSE)} :
      \E f \in {NoFault} \cup NameFaults \cup SizeFaults(ps, rv) \cup BrokenCells :
        /\ f = NoFault \/ lion = Some(FALSE)
        /\ sys = SystemParameters(ps, rv, lion)
        /\ mem = MemImage(ps, rv, f)
        /\ strs = StrImage(ps, f)
        /\ isa_cache = <<>>
        /\ obj = NoObj
        /\ data = NoneData
        /\ resolved = NotResolved
        /\ log = <<>>
        /\ call = NoCall
        /\ NoProcess /\ NoFormatter /\ NoRoot

\* the state after the call fn made on the descriptor returned r without a read
answered(fn, align, r) ==
    /\ call' = [NoCall EXCEPT !.fn = fn, !.align = align, !.done = TRUE, !.out = r]
    /\ log' = <<>>
    /\ UNCHANGED <<sys, mem, strs, isa_cache, obj, data, resolved>>
    /\ UNCHANGED <<process_vars, formatter_vars, root_vars>>

Do_class_name ==
    /\ resolved.made
    /\ answered("class_name", FALSE, call_class_name(data))

Do_is_kvo ==
    /\ resolved.made
    /\ answered("is_kvo", FALSE, is_kvo(data))

Do_is_cftype ==
    /\ resolved.made
    /\ answered("is_cftype", FALSE, is_cftype(data))

Do_is_tagged ==
    /\ resolved.made
    /\ answered("is_tagged", FALSE, is_tagged(data))

Do_get_superclass ==
    /\ resolved.made
    /\ answered("get_superclass", FALSE, get_superclass(data))

Do_instance_size(align) ==
    /\ resolved.made
    /\ answered("instance_size", align, instance_size(data, align, sys))

\* the state after instance_size of the class_ro_t descriptor gave r: the
\* descriptor in the cache is the very object the call was made on
rot_answered(align, r) ==
    /\ call' = [NoCall EXCEPT !.fn = "RoT_Data.instance_size", !.align = align,
                              !.done = TRUE, !.out = r.ret]
    /\ log' = r.log
    /\ data' = [data EXCEPT !.data.data = r.rot]
    /\ isa_cache' = IF Cache_look_for_key(isa_cache, data.valobj)
                    THEN [isa_cache EXCEPT ![data.valobj].data.data = r.rot]
                    ELSE isa_cache
    /\ UNCHANGED <<sys, mem, strs, obj, resolved>>
    /\ UNCHANGED <<process_vars, formatter_vars, root_vars>>

\* data.data.data.instance_size(align) on a V2 descriptor that has a class_ro_t
Do_rot_instance_size(align) ==
    /\ resolved.made
    /\ data.kind = "Class_Data_V2" /\ data.valid /\ data.data.valid
    /\ rot_answered(align, RoT_instance_size(data.data.data, align, sys))

NextDesc ==
    \/ \E p \in DescPointers : ObjCRuntime_init(p)
    \/ Do_read_class_data(TRUE)
    \/ Do_class_name
    \/ Do_is_kvo
    \/ Do_is_cftype
    \/ Do_is_tagged
    \/ Do_get_superclass
    \/ \E align \in BOOLEAN : Do_instance_size(align)
    \/ \E align \in BOOLEAN : Do_rot_instance_size(align)

SpecDesc == InitDesc /\ [][NextDesc]_vars

----------------------------------------------------------------------------
(* Claims on the accessors (checked under SpecDesc) *)

\* data is a valid descriptor of one of the two ABI variants
ValidClass == data.kind \in {"Class_Data_V1", "Class_Data_V2"} /\ is_valid(data)

\* the instance size the process holds for the class: class + 5 * pointerSize
\* (V1), class_ro_t + 8 (V2)
StoredSize ==
    IF SizeCell(sys.pointer_size, sys.runtime_version) \in DOMAIN mem
    THEN mem[SizeCell(sys.pointer_size, sys.runtime_version)]
    ELSE None

\* C13: the instance size is not read while the descriptor is resolved; the first
\* instance_size() on a valid V1 or V2 descriptor returns the stored size, and a
\* later call returns the same value without a read.
C13_LazyInstanceSize ==
    [][ /\ Do_read_class_data(TRUE)
           => \A i \in 1..Len(log') :
                 log'[i].addr # SizeCell(sys.pointer_size, sys.runtime_version)
        /\ (Do_instance_size(FALSE) /\ ValidClass)
           => /\ call'.out = Ret_num(StoredSize)
              /\ (call.fn = "instance_size" /\ ~call.align)
                 => (call'.out = call.out /\ log' = <<>>) ]_vars

\* size rounded up to the next multiple of ps, modulo 2^32
RoundedUp(size, ps) ==
    read_uint32(Add64(size, (ps - Mod64(size, ps)) % ps))

\* C14: instance_size(align=True) on a valid descriptor returns the stored size
\* rounded up to the next multiple of pointerSize, modulo 2^32.
C14_AlignedInstanceSize ==
    [][ (Do_instance_size(TRUE) /\ ValidClass /\ StoredSize # None)
        => call'.out = Ret_num(RoundedUp(StoredSize, sys.pointer_size)) ]_vars

\* what resolving the superclass isa of data through the cache would give
Superclass ==
    looked_up(Cache_get_value(isa_cache, data.superclassIsaPointer, NoneData),
              data.superclassIsaPointer, sys, isa_cache, <<>>)

\* C16: get_superclass on a valid V1 or V2 descriptor returns the descriptor that
\* resolving the superclass isa (class + pointerSize) through the isa cache gives,
\* with the cache updated as read_class_data would; the resolution of the class
\* itself reads nothing of the superclass.
C16_SuperclassResolved ==
    [][ /\ Do_read_class_data(TRUE)
           => \A i \in 1..Len(log') :
                 IsRead(log'[i]) => log'[i].addr \notin {SUPER, Hi(SUPER)}
        /\ (Do_get_superclass /\ ValidClass)
           => /\ call'.out.kind = "descriptor"
              /\ call'.desc = Superclass.data
              /\ isa_cache' = Superclass.cache ]_vars

\* name begins with the fifteen characters NSKVONotifying_
HasKVOPrefix(name) ==
    /\ Len(name) >= 15
    /\ \A i \in 1..15 : name[i] = NSKVONotifying_[i]

\* C17: is_kvo() on a valid V1 or V2 descriptor is true exactly when the class
\* name starts with NSKVONotifying_; on an invalid or tagged descriptor it is
\* never true; the call reads nothing.
C17_KVO ==
    [][ Do_is_kvo
        => /\ IF ValidClass
              THEN call'.out = Ret_bool(HasKVOPrefix(class_name(data)[1]))
              ELSE call'.out # Ret_bool(TRUE)
           /\ log' = <<>> ]_vars

\* C17 witness: is_kvo() answered True for the class NSKVONotifying_Foo
C17_Witness ==
    /\ resolved.made /\ ValidClass
    /\ class_name(data) = Some(NSKVONotifying_ \o Foo)
    /\ call.fn = "is_kvo" /\ call.out = Ret_bool(TRUE)

\* C18: is_cftype() on a valid V1 or V2 descriptor is true exactly when the class
\* name is __NSCFType or NSCFType, and false for every other name.
C18_CFType ==
    [][ (Do_is_cftype /\ ValidClass)
        => call'.out = Ret_bool(class_name(data)[1] \in {UU_NSCFType, NSCFType}) ]_vars

\* C19: get_superclass() on a tagged descriptor returns None and reads nothing,
\* and is_tagged() is true only on a descriptor the tagged decoder made.
C19_TaggedIsRoot ==
    [][ /\ (Do_get_superclass /\ data.kind = "TaggedClass_Data")
           => /\ call'.out = Ret_None
              /\ log' = <<>>
              /\ isa_cache' = isa_cache
        /\ Do_is_tagged
           => ( call'.out = Ret_bool(TRUE)
                <=> data = TaggedClass_Data(resolved.value, sys) ) ]_vars

\* C19 witness: get_superclass() called on the descriptor of a tagged pointer
C19_Witness ==
    /\ resolved.made /\ data.kind = "TaggedClass_Data" /\ is_valid(data)
    /\ call.fn = "get_superclass" /\ call.out = Ret_None
    /\ log = <<>>

\* C20 as first stated: on every descriptor with is_valid() = false, class_name(),
\* instance_size() and get_superclass() give None and is_kvo()/is_cftype() are
\* not true.
C20_Original ==
    [][ (resolved.made /\ ~is_valid(data))
        => /\ (Do_class_name \/ Do_get_superclass) => call'.out = Ret_None
           /\ \A align \in BOOLEAN : Do_instance_size(align) => call'.out = Ret_None
           /\ (Do_is_kvo \/ Do_is_cftype) => call'.out # Ret_bool(TRUE) ]_vars

\* C20: on a V1 or V2 descriptor with is_valid() = false, class_name(),
\* instance_size() and get_superclass() give None, is_kvo() gives False and
\* is_cftype() gives None; on InvalidClass_Data, which defines is_valid() only,
\* each of these calls raises AttributeError; none of them reads anything, and
\* read_class_data never returns a tagged descriptor that is invalid.
C20_InvalidExposesNothing ==
    [][ /\ (data'.kind = "TaggedClass_Data") => is_valid(data')
        /\ (data.kind \in {"Class_Data_V1", "Class_Data_V2"} /\ ~is_valid(data))
           => /\ (Do_class_name \/ Do_get_superclass \/ Do_is_cftype)
                 => call'.out = Ret_None
              /\ \A align \in BOOLEAN : Do_instance_size(align) => call'.out = Ret_None
              /\ Do_is_kvo => call'.out = Ret_bool(FALSE)
        /\ (data.kind = "InvalidClass_Data")
           => ( ( \/ Do_class_name \/ Do_get_superclass \/ Do_is_cftype \/ Do_is_kvo
                  \/ \E align \in BOOLEAN : Do_instance_size(align) )
                => call'.out = Raise("AttributeError") /\ log' = <<>> ) ]_vars

\* C20 witness: instance_size(align=True) gave None on an invalid V2 descriptor
C20_Witness ==
    /\ resolved.made /\ data.kind = "Class_Data_V2" /\ ~is_valid(data)
    /\ call.fn = "instance_size" /\ call.align /\ call.out = Ret_None

----------------------------------------------------------------------------
(* The isa cache: read_class_data and direct calls of the cache *)

\* how many add_item calls the log keeps
MaxOps == 2

\* what the walk of the class at CLS gives
Walk(params) ==
    IF params.runtime_version = Some(2) THEN Class_Data_V2(CLS, params).d
    ELSE Class_Data_V1(CLS, params).d

\* the values put into the cache: the invalid descriptor and the walked one
CacheValues(params) == {InvalidClass_Data, Walk(params)}

CacheKeys == {CLS, SUPER}

\* the class as it is, and the class with a name that is no identifier
InitCache ==
    \E ps \in {8}, rv \in {Some(1), Some(2)} :
      \E f \in {NoFault, [kind |-> "str", addr |-> NAME, val |-> Some(<<"F", " ", "o">>)]} :
        /\ sys = SystemParameters(ps, rv, Some(FALSE))
        /\ mem = MemImage(ps, rv, f)
        /\ strs = StrImage(ps, f)
        /\ isa_cache = <<>>
        /\ obj = NoObj
        /\ data = NoneData
        /\ resolved = NotResolved
        /\ log = <<>>
        /\ call = NoCall
        /\ NoProcess /\ NoFormatter /\ NoRoot

\* the last MaxOps entries of l \o <<e>>
kept(l, e) ==
    IF Len(l) < MaxOps THEN Append(l, e)
    ELSE Append(SubSeq(l, Len(l) - MaxOps + 2, Len(l)), e)

\* isa_cache.add_item(key, value, ok_to_replace)
Do_add_item(key, value, ok_to_replace) ==
    /\ isa_cache' = Cache_add_item(isa_cache, key, value, ok_to_replace)
    /\ call' = [NoCall EXCEPT !.fn = "add_item", !.pointer = key, !.desc = value,
                              !.ok_to_replace = ok_to_replace, !.done = TRUE,
                              !.ret = ok_to_replace \/ ~Cache_look_for_key(isa_cache, key)]
    /\ log' = kept(IF \A i \in 1..Len(log) : log[i].op = "add_item" /\ log[i].val # None
                   THEN log ELSE <<>>,
                   Ev("add_item", "isa_cache", key, Some(value)))
    /\ UNCHANGED <<sys, mem, strs, obj, data, resolved>>
    /\ UNCHANGED <<process_vars, formatter_vars, root_vars>>

\* isa_cache.get_value(key, default=None)
Do_get_value(key) ==
    /\ call' = [NoCall EXCEPT !.fn = "get_value", !.pointer = key, !.done = TRUE,
                              !.desc = Cache_get_value(isa_cache, key, NoneData)]
    /\ UNCHANGED <<sys, mem, strs, isa_cache, obj, data, resolved, log>>
    /\ UNCHANGED <<process_vars, formatter_vars, root_vars>>

NextCache ==
    \/ ObjCRuntime_init(OBJ)
    \/ Do_read_class_data(TRUE)
    \/ \E key \in CacheKeys, ok \in BOOLEAN :
         \E value \in CacheValues(sys) : Do_add_item(key, value, ok)
    \/ \E key \in CacheKeys : Do_get_value(key)

SpecCache == InitCache /\ [][NextCache]_vars

----------------------------------------------------------------------------
(* Claims on the isa cache (checked under SpecCache) *)

\* the step is a read_class_data that walked the class metadata and found it valid
WalkedValid ==
    /\ Do_read_class_data(TRUE)
    /\ \E i \in 1..Len(log') : IsMetaRead(log'[i])
    /\ is_valid(data')

\* the log is: add_item(key, an invalid descriptor), then add_item(key, value)
InvalidThen(key, value) ==
    /\ Len(log) = 2
    /\ log[1] = Ev("add_item", "isa_cache", key, log[1].val)
    /\ ~is_valid(log[1].val[1])
    /\ log[2] = Ev("add_item", "isa_cache", key, Some(value))

\* C15: after a walk that gave a valid descriptor for the class address A the
\* cache maps A to the descriptor returned; add_item with replacement allowed
\* stores its value whatever was stored before, so get_value(A) after the
\* insertion of an invalid descriptor and then of a valid one gives the valid one.
C15_CacheHoldsValid ==
    [][ /\ WalkedValid
           => /\ Cache_look_for_key(isa_cache', obj'.isa_value)
              /\ isa_cache'[obj'.isa_value] = data'
        /\ \A key \in CacheKeys : \A value \in CacheValues(sys) :
              /\ Do_add_item(key, value, TRUE)
                 => Cache_get_value(isa_cache', key, NoneData) = value
              /\ ( /\ Do_get_value(key) /\ InvalidThen(key, value) /\ is_valid(value)
                   /\ call.fn = "add_item" /\ call.ok_to_replace )
                 => call'.desc = value ]_vars

\* C15 witness: an invalid descriptor, then a valid one were put at CLS, the
\* second with replacement allowed, and the lookup that followed gave the valid one
C15_Witness ==
    /\ InvalidThen(CLS, Walk(sys))
    /\ is_valid(Walk(sys))
    /\ call.fn = "get_value" /\ call.pointer = CLS /\ call.desc = Walk(sys)
    /\ isa_cache[CLS] = Walk(sys)

\* no read of the log l that failed is followed by a read of the same address
NoRetry(l) ==
    \A i, j \in 1..Len(l) :
        (i < j /\ IsRead(l[i]) /\ IsRead(l[j]) /\ l[i].val = None)
        => l[j].addr # l[i].addr

\* C21: no resolver operation surfaces an exception: read_class_data and the
\* get_superclass, instance_size, is_kvo and is_cftype calls made on the descriptor
\* it returned complete normally, whatever reads fail, and a read that failed is
\* not repeated within the call.
C21_NoException ==
    [][ /\ Do_read_class_data(TRUE) => NoRetry(log')
        /\ (\/ Do_get_superclass
            \/ Do_is_kvo
            \/ Do_is_cftype
            \/ \E align \in BOOLEAN : Do_instance_size(align))
           => (call'.out.kind # "raise" /\ NoRetry(log')) ]_vars

----------------------------------------------------------------------------
(* The per-process context: SystemParameters and the module-level caches *)

\* the process ids of the debugged processes
Pids == {1, 2}

Section(name, valid) == [name |-> name, valid |-> valid]

Module(filename, valid, sections, version) ==
    [filename |-> filename, valid |-> valid, sections |-> sections, version |-> version]

dyld == Module("dyld", TRUE, <<Section("__TEXT", TRUE)>>, <<>>)

\* the legacy runtime on an old Foundation
LegacyModules ==
    <<dyld,
      Module("libobjc.A.dylib", TRUE,
             <<Section("__TEXT", TRUE), Section("__OBJC", TRUE)>>, <<>>),
      Module("Foundation", TRUE, <<>>, <<833, 1>>)>>

\* the modern runtime on a newer Foundation
ModernModules ==
    <<Module("libobjc.A.dylib", TRUE,
             <<Section("__TEXT", TRUE), Section("__DATA", TRUE)>>, <<>>),
      Module("Foundation", TRUE, <<>>, <<945>>)>>

\* the module lists of a target: nothing loaded, no Objective-C runtime, the two
\* runtimes, a runtime module that is not valid with a Foundation of no version,
\* and a runtime whose __OBJC section is not valid
ModuleLists ==
    { <<>>,
      <<dyld>>,
      LegacyModules,
      ModernModules,
      <<Module("libobjc.A.dylib", FALSE, <<Section("__OBJC", TRUE)>>, <<>>),
        Module("Foundation", TRUE, <<>>, <<>>)>>,
      <<Module("libobjc.A.dylib", TRUE, <<Section("__OBJC", FALSE)>>, <<>>),
        Module("Foundation", FALSE, <<>>, <<833>>)>> }

\* a debugged process: whether process.IsValid(), its address size, its modules;
\* the process that is not valid is the one of the legacy runtime
Targets(ps) ==
    { [valid |-> TRUE, address_byte_size |-> ps, modules |-> ms] : ms \in ModuleLists }
    \cup { [valid |-> FALSE, address_byte_size |-> ps, modules |-> LegacyModules] }

\* the index of the first element of s named n by field, 0 when there is none:
\* the for loops that break at the first match
first_named(s, n) ==
    IF \E i \in 1..Len(s) : s[i] = n
    THEN CHOOSE i \in 1..Len(s) : s[i] = n /\ \A j \in 1..(i - 1) : s[j] # n
    ELSE 0

filenames(t) == [i \in 1..Len(t.modules) |-> t.modules[i].filename]

section_names(m) == [i \in 1..Len(m.sections) |-> m.sections[i].name]

\* the second loop of runtime_version, over the sections of the module found
section_version(m, idx) ==
    IF idx # 0 /\ m.sections[idx].valid THEN Some(1) ELSE Some(2)

module_version(t, idx) ==
    IF idx = 0 \/ ~t.modules[idx].valid THEN None
    ELSE section_version(t.modules[idx],
                         first_named(section_names(t.modules[idx]), "__OBJC"))

\* ObjCRuntime.runtime_version(process)
ObjCRuntime_runtime_version(t) ==
    IF ~t.valid THEN None
    ELSE module_version(t, first_named(filenames(t), "libobjc.A.dylib"))

lion_of(t, idx) ==
    IF idx = 0 \/ ~t.modules[idx].valid THEN None
    ELSE IF t.modules[idx].version = <<>> THEN None
    ELSE Some(t.modules[idx].version[1] < 900)

\* Utilities.check_is_osx_lion(target)
check_is_osx_lion(t) == lion_of(t, first_named(filenames(t), "Foundation"))

\* SystemParameters.adjust_for_architecture
adjust_for_architecture(t, pid) ==
    [pointer_size |-> t.address_byte_size, is_64_bit |-> (t.address_byte_size = 8),
     runtime_version |-> None, is_lion |-> None,
     pid |-> pid, types_cache |-> 0, isa_cache |-> 0]

\* a SystemParameters not constructed yet
NoParams == adjust_for_architecture([address_byte_size |-> 0], 0)

\* the module-level caches, the objects made, what was detected during the
\* construction (log) and the SystemParameters under construction (self)
Globals(self) ==
    [runtime_version |-> runtime_version, os_version |-> os_version,
     types_caches |-> types_caches, isa_caches |-> isa_caches,
     heap |-> heap, log |-> <<>>, self |-> self]

\* lines 499-503: the runtime version of the process, detected on a miss
with_runtime_version_Always(g, pid, t) ==
    [g EXCEPT !.self.runtime_version = ObjCRuntime_runtime_version(t),
              !.runtime_version = Cache_add_item(@, pid, ObjCRuntime_runtime_version(t), TRUE),
              !.log = Append(@, Ev("runtime_version", "process", U64(pid), None))]

with_runtime_version(g, pid, t) ==
    IF Cache_look_for_key(g.runtime_version, pid)
    THEN [g EXCEPT !.self.runtime_version = Cache_get_value(g.runtime_version, pid, None)]
    ELSE [g EXCEPT !.self.runtime_version = ObjCRuntime_runtime_version(t),
                   !.runtime_version = Cache_add_item(@, pid, ObjCRuntime_runtime_version(t), TRUE),
                   !.log = Append(@, Ev("runtime_version", "process", U64(pid), None))]

\* lines 505-509: is_lion
with_os_version(g, pid, t) ==
    IF Cache_look_for_key(g.os_version, pid)
    THEN [g EXCEPT !.self.is_lion = Cache_get_value(g.os_version, pid, None)]
    ELSE [g EXCEPT !.self.is_lion = check_is_osx_lion(t),
                   !.os_version = Cache_add_item(@, pid, check_is_osx_lion(t), TRUE),
                   !.log = Append(@, Ev("check_is_osx_lion", "target", U64(pid), None))]

\* lines 511-518: the types cache, a new AttributesDictionary on a miss
with_types_cache(g, pid) ==
    IF Cache_look_for_key(g.types_caches, pid)
    THEN [g EXCEPT !.self.types_cache = Cache_get_value(g.types_caches, pid, 0)]
    ELSE [g EXCEPT !.self.types_cache = Len(g.heap) + 1,
                   !.heap = Append(@, [kind |-> "AttributesDictionary", data |-> <<>>]),
                   !.types_caches = Cache_add_item(@, pid, Len(g.heap) + 1, TRUE)]

\* lines 520-524: the isa cache, a new Cache on a miss
with_isa_cache(g, pid) ==
    IF Cache_look_for_key(g.isa_caches, pid)
    THEN [g EXCEPT !.self.isa_cache = Cache_get_value(g.isa_caches, pid, 0)]
    ELSE [g EXCEPT !.self.isa_cache = Len(g.heap) + 1,
                   !.heap = Append(@, [kind |-> "Cache", data |-> <<>>]),
                   !.isa_caches = Cache_add_item(@, pid, Len(g.heap) + 1, TRUE)]

\* SystemParameters.adjust_for_process
adjust_for_process(g, pid, t) ==
    with_isa_cache(with_types_cache(with_os_version(with_runtime_version(g, pid, t),
                                                    pid, t), pid), pid)

\* SystemParameters(valobj), valobj being a value of the process pid
SystemParameters_init(pid) ==
    adjust_for_process(Globals(adjust_for_architecture(target[pid], pid)), pid, target[pid])

\* two processes, nothing inspected yet; both hold the class Foo
InitCtx ==
    \E ps \in {8}, rv \in {Some(1), Some(2)} :
      /\ target \in [Pids -> Targets(ps)]
      /\ runtime_version = <<>>
      /\ os_version = <<>>
      /\ types_caches = <<>>
      /\ isa_caches = <<>>
      /\ heap = <<>>
      /\ sys = NoParams
      /\ mem = MemImage(ps, rv, NoFault)
      /\ strs = StrImage(ps, NoFault)
      /\ isa_cache = <<>>
      /\ obj = NoObj
      /\ data = NoneData
      /\ resolved = NotResolved
      /\ log = <<>>
      /\ call = NoCall
      /\ NoFormatter /\ NoRoot

\* the state after a construction that left the globals g
constructed(g) ==
    /\ sys' = g.self
    /\ runtime_version' = g.runtime_version
    /\ os_version' = g.os_version
    /\ types_caches' = g.types_caches
    /\ isa_caches' = g.isa_caches
    /\ heap' = g.heap
    /\ log' = g.log

\* runtime = ObjCRuntime(valobj), valobj being the pointer p in the process pid
Do_ObjCRuntime(pid, p) ==
    /\ obj' = [made |-> TRUE, unsigned_value |-> p, isa_value |-> None]
    /\ constructed(SystemParameters_init(pid))
    /\ UNCHANGED <<call, mem, strs, isa_cache, data, resolved, target>>
    /\ UNCHANGED <<formatter_vars, root_vars>>

\* the state after runtime.read_class_data() returned r
returned_in_process(r) ==
    /\ data' = r.data
    /\ log' = r.log
    /\ heap' = [heap EXCEPT ![sys.isa_cache].data = r.cache]
    /\ obj' = [obj EXCEPT !.isa_value = r.isa_value]
    /\ resolved' = [made |-> TRUE, value |-> obj.unsigned_value, in_scope |-> TRUE]

\* runtime.read_class_data() on the wrapper made last
Do_read_class_data_in_process ==
    /\ obj.made
    /\ returned_in_process(read_class_data(obj, TRUE, sys, heap[sys.isa_cache].data))
    /\ UNCHANGED <<call, sys, mem, strs, isa_cache>>
    /\ UNCHANGED <<runtime_version, os_version, types_caches, isa_caches, target>>
    /\ UNCHANGED <<formatter_vars, root_vars>>

\* the debugger's view of a process changes: modules are loaded, the process ends
Target_changes(pid, t) ==
    /\ t # target[pid]
    /\ target' = [target EXCEPT ![pid] = t]
    /\ UNCHANGED <<walker_vars, runtime_version, os_version, types_caches, isa_caches, heap>>
    /\ UNCHANGED <<formatter_vars, root_vars>>

NextCtx ==
    \/ \E pid \in Pids, p \in {OBJ} : Do_ObjCRuntime(pid, p)
    \/ Do_read_class_data_in_process
    \/ \E pid \in Pids : \E t \in Targets(target[pid].address_byte_size) :
         Target_changes(pid, t)

SpecCtx == InitCtx /\ [][NextCtx]_vars

----------------------------------------------------------------------------
(* Claims on the per-process context (checked under SpecCtx) *)

IsDetection(e) == e.op = "runtime_version"

IsLionCheck(e) == e.op = "check_is_osx_lion"

\* the number of entries of l that satisfy P
Count(l, P(_)) == Cardinality({ i \in 1..Len(l) : P(l[i]) })

\* every entry of the cache c is an entry of c2
Kept(c, c2) == \A k \in DOMAIN c : k \in DOMAIN c2 /\ c2[k] = c[k]

\* the cache c has after the step what it had before, and pid besides
OnlyAdded(c, c2, pid) == Kept(c, c2) /\ DOMAIN c2 = DOMAIN c \cup {pid}

\* the entries of the isa cache object of process q are after the step what they were
SameIsaCache(q) ==
    Cache_look_for_key(isa_caches, q) => heap'[isa_caches[q]] = heap[isa_caches[q]]

\* C22: the context of a process is computed once: a construction for a process id
\* the caches know runs neither the runtime-version detection nor the OS-version
\* check and gets the cached runtime_version, is_lion, types cache and isa cache; a
\* first construction runs each once; no step changes an entry of the four caches,
\* and neither a construction nor a resolution touches another process's entries.
C22_ContextOnce ==
    [][ /\ \A pid \in Pids :
             Do_ObjCRuntime(pid, OBJ)
             => /\ IF Cache_look_for_key(runtime_version, pid)
                   THEN /\ Count(log', IsDetection) = 0
                        /\ sys'.runtime_version = runtime_version[pid]
                   ELSE Count(log', IsDetection) = 1
                /\ IF Cache_look_for_key(os_version, pid)
                   THEN /\ Count(log', IsLionCheck) = 0
                        /\ sys'.is_lion = os_version[pid]
                   ELSE Count(log', IsLionCheck) = 1
                /\ Cache_look_for_key(types_caches, pid)
                   => sys'.types_cache = types_caches[pid]
                /\ Cache_look_for_key(isa_caches, pid)
                   => sys'.isa_cache = isa_caches[pid]
                /\ OnlyAdded(runtime_version, runtime_version', pid)
                /\ OnlyAdded(os_version, os_version', pid)
                /\ OnlyAdded(types_caches, types_caches', pid)
                /\ OnlyAdded(isa_caches, isa_caches', pid)
                /\ \A q \in Pids : SameIsaCache(q)
        /\ Do_read_class_data_in_process
           => \A q \in Pids \ {sys.pid} : SameIsaCache(q)
        /\ Kept(runtime_version, runtime_version') /\ Kept(os_version, os_version')
        /\ Kept(types_caches, types_caches') /\ Kept(isa_caches, isa_caches') ]_vars

\* C22 witness: a second wrapper was made for process 1, whose isa cache holds the
\* class resolved through the first; the process now shows the modern runtime, the
\* context still says 1 and nothing was detected; process 2 has a context as well
C22_Witness ==
    /\ obj.made /\ obj.isa_value = None /\ log = <<>>
    /\ sys.pid = 1 /\ sys.runtime_version = Some(1)
    /\ ObjCRuntime_runtime_version(target[1]) = Some(2)
    /\ Cache_look_for_key(heap[sys.isa_cache].data, CLS)
    /\ Cache_look_for_key(runtime_version, 2)
    /\ isa_caches[2] # isa_caches[1]

\* the runtime module of t has a section named __OBJC
HasLegacySection(t) ==
    \E i \in 1..Len(t.modules) :
        /\ t.modules[i].filename = "libobjc.A.dylib"
        /\ \E j \in 1..Len(t.modules[i].sections) : t.modules[i].sections[j].name = "__OBJC"

\* C23: the runtime version kept for a process is 1 or 2: 1 exactly when the
\* Objective-C runtime module has the legacy __OBJC section, 2 otherwise; and
\* read_class_data walks the V1 layout only when the version is 1.
C23_RuntimeVersion ==
    [][ /\ \A pid \in Pids :
             (Do_ObjCRuntime(pid, OBJ) /\ ~Cache_look_for_key(runtime_version, pid))
             => runtime_version'[pid] = IF HasLegacySection(target[pid])
                                        THEN Some(1) ELSE Some(2)
        /\ (Do_read_class_data_in_process /\ data'.kind = "Class_Data_V1")
           => sys.runtime_version = Some(1) ]_vars

----------------------------------------------------------------------------
(* ResultsFormatter of lldb/test/test_results.py: the start times of tests *)

\* the number of track_start_time / elapsed_time_for_test calls made
MaxCalls == 3

\* EventBuilder._get_test_name_info: the test name is the last component of
\* test.id(), the class is the rest, which may hold dots
TestClasses == { Some(<<"A">>), Some(<<"A", ".", "B">>) }

TestNames == { Some(<<"t">>) }

StartTimes == {1, 2}

EndTimes == {3}

\* "{}.{}".format(test_class, test_name)
test_key(test_class, test_name) == test_class[1] \o <<".">> \o test_name[1]

\* ResultsFormatter.track_start_time: start_time_by_test after the call
track_start_time(times, test_class, test_name, start_time) ==
    IF test_class = None \/ test_name = None THEN times
    ELSE [k \in DOMAIN times \cup {test_key(test_class, test_name)} |->
             IF k = test_key(test_class, test_name) THEN start_time ELSE times[k]]

\* the branch of elapsed_time_for_test that found the key: the record stays
elapsed_NoDelete(times, key, end_time) ==
    [ret |-> end_time - times[key], times |-> times]

\* the branch of elapsed_time_for_test that found the key
elapsed(times, key, end_time) ==
    [ret |-> end_time - times[key],
     times |-> [k \in DOMAIN times \ {key} |-> times[k]]]

\* ResultsFormatter.elapsed_time_for_test: the result (-2 and -1 for -2.0 and
\* -1.0) and start_time_by_test after the call
elapsed_time_for_test(times, test_class, test_name, end_time) ==
    IF test_class = None \/ test_name = None THEN [ret |-> -2, times |-> times]
    ELSE IF test_key(test_class, test_name) \notin DOMAIN times
    THEN [ret |-> -1, times |-> times]
    ELSE elapsed(times, test_key(test_class, test_name), end_time)

\* a call as the history keeps it
Called(fn, test_class, test_name, time, ret) ==
    [fn |-> fn, test_class |-> test_class, test_name |-> test_name,
     time |-> time, ret |-> ret]

\* a ResultsFormatter after __init__
InitTimes ==
    /\ start_time_by_test = <<>>
    /\ lock = 0
    /\ log = <<>>
    /\ options = <<>>
    /\ total_test_count = 0
    /\ elements = <<>>
    /\ out_file = <<>>
    /\ threads = <<>>
    /\ call = NoCall
    /\ sys = SystemParameters(8, Some(2), None)
    /\ mem = <<>>
    /\ strs = <<>>
    /\ isa_cache = <<>>
    /\ obj = NoObj
    /\ data = NoneData
    /\ resolved = NotResolved
    /\ NoProcess /\ NoRoot

\* formatter.track_start_time(test_class, test_name, start_time)
Do_track_start_time(test_class, test_name, start_time) ==
    /\ Len(log) < MaxCalls
    /\ start_time_by_test' =
           track_start_time(start_time_by_test, test_class, test_name, start_time)
    /\ log' = Append(log, Called("track_start_time", test_class, test_name, start_time, 0))
    /\ UNCHANGED <<call, sys, mem, strs, isa_cache, obj, data, resolved>>
    /\ UNCHANGED <<options, lock, total_test_count, elements, out_file, threads>>
    /\ UNCHANGED <<process_vars, root_vars>>

\* the state after elapsed_time_for_test gave r
elapsed_answered(test_class, test_name, end_time, r) ==
    /\ start_time_by_test' = r.times
    /\ log' = Append(log, Called("elapsed_time_for_test", test_class, test_name,
                                 end_time, r.ret))

\* formatter.elapsed_time_for_test(test_class, test_name, end_time)
Do_elapsed_time_for_test(test_class, test_name, end_time) ==
    /\ Len(log) < MaxCalls
    /\ elapsed_answered(test_class, test_name, end_time,
                        elapsed_time_for_test(start_time_by_test, test_class,
                                              test_name, end_time))
    /\ UNCHANGED <<call, sys, mem, strs, isa_cache, obj, data, resolved>>
    /\ UNCHANGED <<options, lock, total_test_count, elements, out_file, threads>>
    /\ UNCHANGED <<process_vars, root_vars>>

NextTimes ==
    \/ \E c \in TestClasses \cup {None}, n \in TestNames \cup {None}, t \in StartTimes :
         Do_track_start_time(c, n, t)
    \/ \E c \in TestClasses \cup {None}, n \in TestNames \cup {None}, t \in EndTimes :
         Do_elapsed_time_for_test(c, n, t)

SpecTimes == InitTimes /\ [][NextTimes]_vars

----------------------------------------------------------------------------
(* Claims on the start times (checked under SpecTimes) *)

\* the start time of the test (c, n) that the calls h left to be asked for: that
\* of the last track_start_time for it, if no elapsed_time_for_test followed
RECURSIVE Pending(_, _, _)
Pending(h, c, n) ==
    IF h = <<>> THEN None
    ELSE IF h[Len(h)].test_class = c /\ h[Len(h)].test_name = n
    THEN IF h[Len(h)].fn = "track_start_time" THEN Some(h[Len(h)].time) ELSE None
    ELSE Pending(SubSeq(h, 1, Len(h) - 1), c, n)

\* what the claim gives for the call e made after the calls h
Elapsed(h, e) ==
    IF e.test_class = None \/ e.test_name = None THEN -2
    ELSE IF Pending(h, e.test_class, e.test_name) = None THEN -1
    ELSE e.time - Pending(h, e.test_class, e.test_name)[1]

\* C24: elapsed_time_for_test answers once per recorded start: it returns the end
\* time minus the start time last recorded for the test and consumes the record,
\* -1.0 for a test with no record (never started, or asked for already), -2.0 for
\* a None class or name; calls with a None class or name change nothing.
C24_ElapsedOnce ==
    /\ \A i \in 1..Len(log) :
         log[i].fn = "elapsed_time_for_test"
         => log[i].ret = Elapsed(SubSeq(log, 1, i - 1), log[i])
    /\ \A c \in TestClasses, n \in TestNames :
         (test_key(c, n) \in DOMAIN start_time_by_test) <=> (Pending(log, c, n) # None)
    /\ \A k \in DOMAIN start_time_by_test :
         \E c \in TestClasses, n \in TestNames :
             k = test_key(c, n) /\ Pending(log, c, n) = Some(start_time_by_test[k])

\* C24 witness: a test was started at 1 and asked for twice at 3: 2, then -1
C24_Witness ==
    /\ Len(log) = 3
    /\ log[1] = Called("track_start_time", Some(<<"A", ".", "B">>), Some(<<"t">>), 1, 0)
    /\ log[2] = Called("elapsed_time_for_test", Some(<<"A", ".", "B">>), Some(<<"t">>), 3, 2)
    /\ log[3] = Called("elapsed_time_for_test", Some(<<"A", ".", "B">>), Some(<<"t">>), 3, -1)

----------------------------------------------------------------------------
(* Claims on the isa cache as read_class_data alone fills it (checked under Spec) *)

\* the log l holds a read of class metadata: the class was walked
Walked(l) == \E i \in 1..Len(l) : IsMetaRead(l[i])

\* C25: the isa cache only ever holds valid descriptors: after any read_class_data
\* every entry is a valid descriptor kept under the isa value it was walked from,
\* an entry the call added is the valid descriptor it returned, a call that gives
\* an invalid descriptor leaves the cache as it was, and resolving the same object
\* again after such a walk walks the metadata again.
C25_OnlyValidCached ==
    [][\A in_scope \in BOOLEAN :
         Do_read_class_data(in_scope)
         => /\ \A k \in DOMAIN isa_cache' :
                  is_valid(isa_cache'[k]) /\ isa_cache'[k].valobj = k
            /\ \A k \in DOMAIN isa_cache' \ DOMAIN isa_cache :
                  k = obj'.isa_value /\ isa_cache'[k] = data' /\ Walked(log')
            /\ Kept(isa_cache, isa_cache')
            /\ ~is_valid(data') => isa_cache' = isa_cache
            /\ (SameInput(in_scope) /\ ~is_valid(data) /\ Walked(log))
               => (Walked(log') /\ ~is_valid(data') /\ isa_cache' = isa_cache)]_vars

\* C25 witness: the class of the object was walked and came out invalid, and the
\* cache is empty
C25_Witness ==
    /\ resolved.made /\ resolved.in_scope /\ resolved.value = OBJ
    /\ obj.unsigned_value = OBJ /\ obj.isa_value # None
    /\ ~is_valid(data) /\ data.kind \in {"Class_Data_V1", "Class_Data_V2"}
    /\ Walked(log)
    /\ isa_cache = <<>>

\* the reads of class_t pointers among the entries of the log l
IsClassRead(e) == e.op = "read_child_of" /\ e.field \in ClassFields

ClassReads(l) == SelectSeq(l, IsClassRead)

\* the order the claim gives to the class_t fields, and their offsets in pointers
V2Order ==
    <<"isaPointer", "cachePointer", "vtablePointer", "dataPointer", "superclassIsaPointer">>

V2Slot == <<0, 2, 3, 4, 1>>

\* v is a pointer the claim accepts: read, aligned, free of bits 47..63, and not
\* null unless null is allowed
Plausible(v, ps, null_allowed) ==
    /\ v # None
    /\ v = Zero => null_allowed
    /\ IsMultipleOf(v, ps)
    /\ ~HasHighBits(v)

\* the class_t reads are the first fields of V2Order, each at its offset from cls
InOrder(reads, cls, ps) ==
    /\ Len(reads) <= 5
    /\ \A i \in 1..Len(reads) :
         /\ reads[i].field = V2Order[i]
         /\ reads[i].addr = Add64(cls, V2Slot[i] * ps)

\* C26: a V2 class descriptor is valid only if the isa, method-cache (2 *
\* pointerSize), vtable (3 * pointerSize), data and superclass pointers of the
\* class record are all aligned and free of bits 47..63, and none but the
\* superclass pointer is null; they are read and checked in the order isa, cache,
\* vtable, data, superclass.
C26_V2FieldsChecked ==
    [][\A in_scope \in BOOLEAN :
         (Do_read_class_data(in_scope) /\ data'.kind = "Class_Data_V2" /\ Walked(log'))
         => /\ InOrder(ClassReads(log'), obj'.isa_value, sys.pointer_size)
            /\ is_valid(data')
               => /\ Len(ClassReads(log')) = 5
                  /\ \A i \in 1..5 :
                       Plausible(ClassReads(log')[i].val, sys.pointer_size, i = 5)]_vars

\* C26 witness: the walk of a V2 class stopped at a method-cache pointer that is
\* not aligned, after the isa and before the vtable, and the class is invalid
C26_Witness ==
    /\ resolved.made /\ data.kind = "Class_Data_V2" /\ ~is_valid(data)
    /\ Len(ClassReads(log)) = 2
    /\ ClassReads(log)[2].field = "cachePointer"
    /\ ClassReads(log)[2].val = Add64(CACHEP, 2)
    /\ Plausible(ClassReads(log)[1].val, sys.pointer_size, FALSE)

----------------------------------------------------------------------------
(* Version: the ordering of OS and framework versions *)

\* the largest major, minor and release number
MaxVersion == 1

\* Version(major, minor, release, build_string)
Version(major, minor, release, build_string) ==
    [major |-> major, minor |-> minor, release |-> release,
     build_string |-> build_string]

Versions ==
    { Version(major, minor, release, build_string) :
        major \in 0..MaxVersion, minor \in 0..MaxVersion, release \in 0..MaxVersion,
        build_string \in {"11A511", "11E53"} }

\* Version.__lt__
Version_lt(self, other) ==
    IF self.major < other.major THEN TRUE
    ELSE IF self.minor < other.minor THEN TRUE
    ELSE IF self.release < other.release THEN TRUE
    ELSE FALSE

\* Version.__eq__
Version_eq(self, other) ==
    /\ self.major = other.major
    /\ self.minor = other.minor
    /\ self.release = other.release
    /\ self.build_string = other.build_string

\* a comparison of two versions about to be made
InitVersion ==
    /\ call \in { [fn |-> fn, self |-> a, other |-> b, done |-> FALSE, ret |-> FALSE] :
                    fn \in {"__lt__", "__eq__"}, a \in Versions, b \in Versions }
    /\ sys = SystemParameters(8, Some(2), None)
    /\ mem = <<>>
    /\ strs = <<>>
    /\ isa_cache = <<>>
    /\ obj = NoObj
    /\ data = NoneData
    /\ resolved = NotResolved
    /\ log = <<>>
    /\ NoProcess /\ NoFormatter /\ NoRoot

\* self < other
Call_Version_lt ==
    /\ call.fn = "__lt__" /\ ~call.done
    /\ call' = [call EXCEPT !.done = TRUE, !.ret = Version_lt(call.self, call.other)]
    /\ UNCHANGED <<sys, mem, strs, isa_cache, obj, data, resolved, log>>
    /\ UNCHANGED <<process_vars, formatter_vars, root_vars>>

\* self == other
Call_Version_eq ==
    /\ call.fn = "__eq__" /\ ~call.done
    /\ call' = [call EXCEPT !.done = TRUE, !.ret = Version_eq(call.self, call.other)]
    /\ UNCHANGED <<sys, mem, strs, isa_cache, obj, data, resolved, log>>
    /\ UNCHANGED <<process_vars, formatter_vars, root_vars>>

NextVersion ==
    \/ Call_Version_lt
    \/ Call_Version_eq

SpecVersion == InitVersion /\ [][NextVersion]_vars

----------------------------------------------------------------------------
(* Claims on Version (checked under SpecVersion) *)

\* (a.major, a.minor, a.release) precedes (b.major, b.minor, b.release)
LexLess(a, b) ==
    \/ a.major < b.major
    \/ a.major = b.major /\ a.minor < b.minor
    \/ a.major = b.major /\ a.minor = b.minor /\ a.release < b.release

\* C27: < on versions is a strict order on (major, minor, release): a < b and
\* b < a never both hold, and a < b holds exactly when a's triple precedes b's
\* lexicographically, whatever the build strings.
C27_StrictOrder ==
    (call.fn = "__lt__" /\ call.done)
    => /\ call.ret = LexLess(call.self, call.other)
       /\ ~(call.ret /\ Version_lt(call.other, call.self))

----------------------------------------------------------------------------
(* XunitFormatter of lldb/test/test_results.py: results reported by threads *)

\* the number of test_result events handed to process_event
MaxResults == 2

\* the threads that call process_event and end_session
Threads == {1, 2}

\* the --xfail / --xpass choices
RM_IGNORE == "ignore"

RM_SUCCESS == "success"

RM_FAILURE == "failure"

RM_PASSTHRU == "passthru"

results_mapping_choices == {RM_IGNORE, RM_SUCCESS, RM_FAILURE, RM_PASSTHRU}

\* the options a formatter is made with: the default mapping (expected failures
\* ignored, unexpected successes failures) and three more, so that each choice
\* is taken once for --xfail and once for --xpass
Options ==
    { [xfail |-> RM_IGNORE, xpass |-> RM_FAILURE],
      [xfail |-> RM_SUCCESS, xpass |-> RM_IGNORE],
      [xfail |-> RM_FAILURE, xpass |-> RM_PASSTHRU],
      [xfail |-> RM_PASSTHRU, xpass |-> RM_SUCCESS] }

\* the test the events are about
XunitClasses == { Some(<<"A", ".", "B">>) }

\* the keys of status_handlers
Statuses ==
    {"success", "failure", "error", "skip", "expected_failure", "unexpected_success"}

\* what a handler does with the event: the list it appends to and the inner
\* content of the testcase element, or nothing at all (the ignore mapping)
Handled(list, inner) == [list |-> list, inner |-> inner]

Ignored == Handled("none", "")

\* XunitFormatter._handle_expected_failure
handle_expected_failure(opts) ==
    IF opts.xfail = RM_PASSTHRU THEN Handled("expected_failures", "expected-failure")
    ELSE IF opts.xfail = RM_SUCCESS THEN Handled("successes", "")
    ELSE IF opts.xfail = RM_FAILURE THEN Handled("failures", "failure")
    ELSE Ignored

\* XunitFormatter._handle_unexpected_success
handle_unexpected_success(opts) ==
    IF opts.xpass = RM_PASSTHRU THEN Handled("unexpected_successes", "unexpected-success")
    ELSE IF opts.xpass = RM_SUCCESS THEN Handled("successes", "")
    ELSE IF opts.xpass = RM_FAILURE THEN Handled("failures", "failure")
    ELSE Ignored

\* self.status_handlers[status], applied
status_handler(status, opts) ==
    CASE status = "success" -> Handled("successes", "")
      [] status = "failure" -> Handled("failures", "failure")
      [] status = "error" -> Handled("errors", "error")
      [] status = "skip" -> Handled("skips", "skipped")
      [] status = "expected_failure" -> handle_expected_failure(opts)
      [] status = "unexpected_success" -> handle_unexpected_success(opts)

\* a test event
Event(event, status, test_class, test_name, event_time) ==
    [event |-> event, status |-> status, test_class |-> test_class,
     test_name |-> test_name, event_time |-> event_time]

\* test_start events, at time 1
StartEvents ==
    { Event("test_start", "", c, n, 1) : c \in XunitClasses, n \in TestNames }

\* test_result events, at time 2
ResultEvents ==
    { Event("test_result", s, c, n, 2) : s \in Statuses, c \in XunitClasses, n \in TestNames }

\* the testcase element _common_add_testcase_entry builds
Testcase(classname, name, time, inner) ==
    [classname |-> classname, name |-> name, time |-> time, inner |-> inner]

NoTestcase == Testcase(<<>>, <<>>, 0, "")

\* a thread that is not inside process_event
Idle == [pc |-> "idle", list |-> "none", result |-> NoTestcase]

\* a line of the report: the testsuite header with its counts (those of expected
\* failures and unexpected successes are written when one is not 0), a testcase,
\* the end
Line(line, tests, errors, failures, skip, xfail_count, xpass_count, result) ==
    [line |-> line, tests |-> tests, errors |-> errors, failures |-> failures,
     skip |-> skip, expected_failures |-> xfail_count,
     unexpected_successes |-> xpass_count, result |-> result]

\* XunitFormatter.__init__
InitXunit ==
    /\ options \in Options
    /\ start_time_by_test = <<>>
    /\ lock = 0
    /\ total_test_count = 0
    /\ elements = [successes |-> <<>>, errors |-> <<>>, failures |-> <<>>,
                   skips |-> <<>>, unexpected_successes |-> <<>>,
                   expected_failures |-> <<>>, all |-> <<>>]
    /\ out_file = <<>>
    /\ threads = [th \in Threads |-> Idle]
    /\ log = <<>>
    /\ call = NoCall
    /\ sys = SystemParameters(8, Some(2), None)
    /\ mem = <<>>
    /\ strs = <<>>
    /\ isa_cache = <<>>
    /\ obj = NoObj
    /\ data = NoneData
    /\ resolved = NotResolved
    /\ NoProcess /\ NoRoot

\* process_event of a test_start event: track_start_time, under the lock
Do_process_start(th, e) ==
    /\ threads[th].pc = "idle" /\ out_file = <<>>
    /\ lock = 0
    /\ start_time_by_test' =
           track_start_time(start_time_by_test, e.test_class, e.test_name, e.event_time)
    /\ UNCHANGED <<options, lock, total_test_count, elements, out_file, threads>>
    /\ UNCHANGED <<walker_vars, process_vars, root_vars>>

\* the handler goes into _common_add_testcase_entry: elapsed_time_for_test gave
\* r, under the lock, and the testcase element is built
entered(th, e, h, r) ==
    /\ lock = 0
    /\ start_time_by_test' = r.times
    /\ threads' = [threads EXCEPT ![th] =
                     [pc |-> "count", list |-> h.list,
                      result |-> Testcase(e.test_class[1], e.test_name[1], r.ret, h.inner)]]

\* the state after the status handler h took the event
dispatched(th, e, h) ==
    IF h = Ignored
    THEN UNCHANGED <<start_time_by_test, threads>>
    ELSE entered(th, e, h, elapsed_time_for_test(start_time_by_test, e.test_class,
                                                 e.test_name, e.event_time))

\* process_event of a test_result event, up to the built testcase element
Do_process_result(th, e) ==
    /\ threads[th].pc = "idle" /\ out_file = <<>>
    /\ Len(log) < MaxResults
    /\ log' = Append(log, e)
    /\ dispatched(th, e, status_handler(e.status, options))
    /\ UNCHANGED <<options, lock, total_test_count, elements, out_file>>
    /\ UNCHANGED <<call, sys, mem, strs, isa_cache, obj, data, resolved>>
    /\ UNCHANGED <<process_vars, root_vars>>

Do_count_Unlocked(th) ==
    /\ threads[th].pc = "count"
    /\ total_test_count' = total_test_count + 1
    /\ threads' = [threads EXCEPT ![th].pc = "append"]
    /\ UNCHANGED <<options, start_time_by_test, lock, elements, out_file>>
    /\ UNCHANGED <<walker_vars, process_vars, root_vars>>

\* _common_add_testcase_entry: with self.lock: self.total_test_count += 1
Do_count(th) ==
    /\ threads[th].pc = "count"
    /\ lock = 0
    /\ lock' = th
    /\ total_test_count' = total_test_count + 1
    /\ threads' = [threads EXCEPT ![th].pc = "append"]
    /\ UNCHANGED <<options, start_time_by_test, elements, out_file>>
    /\ UNCHANGED <<walker_vars, process_vars, root_vars>>

\* ... self.elements["all"].append(result), and the lock is released
Do_append_all(th) ==
    /\ threads[th].pc = "append"
    /\ elements' = [elements EXCEPT !.all = Append(@, threads[th].result)]
    /\ lock' = 0
    /\ threads' = [threads EXCEPT ![th].pc = "list"]
    /\ UNCHANGED <<options, start_time_by_test, total_test_count, out_file>>
    /\ UNCHANGED <<walker_vars, process_vars, root_vars>>

\* the handler: with self.lock: self.elements[list].append(result)
Do_append_list(th) ==
    /\ threads[th].pc = "list"
    /\ lock = 0
    /\ elements' = [elements EXCEPT ![threads[th].list] = Append(@, threads[th].result)]
    /\ threads' = [threads EXCEPT ![th] = Idle]
    /\ UNCHANGED <<options, start_time_by_test, lock, total_test_count, out_file>>
    /\ UNCHANGED <<walker_vars, process_vars, root_vars>>

\* _end_session_internal: the header with the counts, each result, the end
end_session_internal(count, elems) ==
    <<Line("testsuite", count, Len(elems.errors), Len(elems.failures),
           Len(elems.skips), Len(elems.expected_failures),
           Len(elems.unexpected_successes), NoTestcase)>>
    \o [i \in 1..Len(elems.all) |-> Line("testcase", 0, 0, 0, 0, 0, 0, elems.all[i])]
    \o <<Line("/testsuite", 0, 0, 0, 0, 0, 0, NoTestcase)>>

\* end_session: with self.lock: self._end_session_internal()
Do_end_session(th) ==
    /\ threads[th].pc = "idle" /\ out_file = <<>>
    /\ lock = 0
    /\ out_file' = end_session_internal(total_test_count, elements)
    /\ UNCHANGED <<options, start_time_by_test, lock, total_test_count, elements, threads>>
    /\ UNCHANGED <<walker_vars, process_vars, root_vars>>

NextXunit ==
    \/ \E th \in Threads, e \in StartEvents : Do_process_start(th, e)
    \/ \E th \in Threads, e \in ResultEvents : Do_process_result(th, e)
    \/ \E th \in Threads : Do_count(th)
    \/ \E th \in Threads : Do_append_all(th)
    \/ \E th \in Threads : Do_append_list(th)
    \/ \E th \in Threads : Do_end_session(th)

SpecXunit == InitXunit /\ [][NextXunit]_vars

----------------------------------------------------------------------------
(* Claims on XunitFormatter (checked under SpecXunit) *)

\* the entries of the lists the handlers append to
Listed ==
    Len(elements.successes) + Len(elements.errors) + Len(elements.failures)
    + Len(elements.skips) + Len(elements.expected_failures)
    + Len(elements.unexpected_successes)

\* the testcase lines of the report
TestcaseLines == { i \in 1..Len(out_file) : out_file[i].line = "testcase" }

\* C28: whenever the formatter's lock is free, total_test_count is the number of
\* entries of elements["all"]; once every handler has returned it is also the
\* number of entries of the six result lists together; and the tests attribute
\* end_session writes is the number of testcase lines it writes.
C28_Counting ==
    /\ lock = 0 => total_test_count = Len(elements.all)
    /\ (\A th \in Threads : threads[th].pc = "idle") => total_test_count = Listed
    /\ out_file # <<>> => out_file[1].tests = Cardinality(TestcaseLines)

\* C28 witness: two results came in from two threads, one of them is counted and
\* listed, the other is inside _common_add_testcase_entry, counted but not yet in
\* elements["all"], and holds the lock
C28_Witness ==
    /\ threads[1].pc = "idle" /\ threads[2].pc = "append" /\ lock = 2
    /\ total_test_count = 2 /\ Len(elements.all) = 1 /\ Listed = 1

\* C29: once a test_result event of any supported status is processed, under any
\* --xfail / --xpass mapping, the key of the test is no longer in
\* start_time_by_test.
C29_StartTimeReleased ==
    [][\A th \in Threads : \A e \in ResultEvents :
         Do_process_result(th, e)
         => test_key(e.test_class, e.test_name) \notin DOMAIN start_time_by_test']_vars

----------------------------------------------------------------------------
(* find_lldb_root of lldb/packages/Python/lldbsuite/__init__.py *)

\* the depth of the deepest directory
MaxDepth == 3

\* the most files named lldb.root
MaxFiles == 2

\* an absolute path is the sequence of its components, "/" the empty one
RECURSIVE Paths(_)
Paths(depth) ==
    IF depth = 0 THEN { <<>> }
    ELSE Paths(depth - 1)
         \cup { Append(p, n) : p \in { q \in Paths(depth - 1) : Len(q) = depth - 1 },
                               n \in {"a", "b"} }

\* os.path.dirname: the parent of a directory, "/" for "/"
dirname(path) == IF path = <<>> THEN <<>> ELSE SubSeq(path, 1, Len(path) - 1)

\* os.path.join(path, name)
join(path, name) == Append(path, name)

\* os.path.isfile
isfile(path) == path \in files

\* the frame of find_lldb_root: where it is, the directory in lldb_root, the result
Frame(pc, path, ret) == [pc |-> pc, path |-> path, ret |-> ret]

\* line 8: lldb_root = os.path.dirname(inspect.getfile(inspect.currentframe())),
\* the module's file being __init__.py in any directory, with lldb.root files in
\* up to MaxFiles directories
InitRoot ==
    /\ \E d \in Paths(MaxDepth) :
         lldb_root = Frame("dirname", dirname(join(d, "__init__.py")), None)
    /\ \E ds \in SUBSET Paths(MaxDepth) :
         /\ Cardinality(ds) <= MaxFiles
         /\ files = { join(d, "lldb.root") : d \in ds }
    /\ call = NoCall
    /\ sys = SystemParameters(8, Some(2), None)
    /\ mem = <<>>
    /\ strs = <<>>
    /\ isa_cache = <<>>
    /\ obj = NoObj
    /\ data = NoneData
    /\ resolved = NotResolved
    /\ log = <<>>
    /\ NoProcess /\ NoFormatter

\* lines 10-12: lldb_root = os.path.dirname(lldb_root); dirname never gives None
Step_dirname ==
    /\ lldb_root.pc = "dirname"
    /\ lldb_root' = Frame("isfile", dirname(lldb_root.path), None)
    /\ UNCHANGED files
    /\ UNCHANGED <<walker_vars, process_vars, formatter_vars>>

\* lines 14-16: return lldb_root if the file is there, else go round the loop
Step_isfile ==
    /\ lldb_root.pc = "isfile"
    /\ lldb_root' = IF isfile(join(lldb_root.path, "lldb.root"))
                    THEN Frame("return", lldb_root.path, Some(lldb_root.path))
                    ELSE Frame("dirname", lldb_root.path, None)
    /\ UNCHANGED files
    /\ UNCHANGED <<walker_vars, process_vars, formatter_vars>>

NextRoot ==
    \/ Step_dirname
    \/ Step_isfile

SpecRoot == InitRoot /\ [][NextRoot]_vars

\* the interpreter goes on running the loop
SpecRootFair == SpecRoot /\ WF_vars(NextRoot)

----------------------------------------------------------------------------
(* Claims on find_lldb_root (checked under SpecRootFair) *)

\* p holds a file lldb.root
HasRoot(p) == join(p, "lldb.root") \in files

\* C30: find_lldb_root terminates from every starting directory: it returns, and
\* what it returns is the nearest of the directories above the starting one that
\* holds a file lldb.root, or None when none of them does.
C30_Terminates ==
    /\ <>(lldb_root.pc = "return")
    /\ [](lldb_root.pc = "return"
          => \/ /\ lldb_root.ret # None
                /\ HasRoot(lldb_root.ret[1])
             \/ /\ lldb_root.ret = None
                /\ \A p \in Paths(MaxDepth) : ~HasRoot(p))

============================================================================
